---- MODULE Spec2Model ----
(***************************************************************************)
(* Verification model of cursor-enhanced: the sub-agent tracker, the       *)
(* token-budgeted history selection, the CLI request flow over the history *)
(* file, and the scheduler core.                                           *)
(***************************************************************************)
EXTENDS Integers, Sequences, FiniteSets, TLC

(***************************************************************************)
(* Bounds of the model.                                                    *)
(***************************************************************************)
MaxExec == 1
MaxClock == 3
MaxCallbacks == 2
MaxProgress == 1
MaxHist == 3
MaxAvailable == 12
MaxRequests == 3
TicksPerMinute == 2
MinutesPerDay == 2
MaxTime == 8
MaxInterval == 3
MaxAllocations == 4
MaxChats == 2
MaxApprovals == 1
MaxSession == 4
MaxCompactions == 3
PollTicks == 1
TimeoutTicks == 2
TtlTicks == 3
MaxStoreTime == 5
MaxModels == 2
MaxLead == 28
MaxTail == 20

(***************************************************************************)
(* Sub-agent tracker (runtime_subagent_tracker.py).                        *)
(***************************************************************************)
VARIABLES
    executions,            \* per tracker process: execution_id -> Execution
    stateFile,             \* the JSON state file: whether it exists, and execution_id -> dict
    completion_callbacks,  \* per tracker process: number of registered callbacks
    failing_callbacks,     \* per tracker process: the registered callbacks that raise
    cbCalls,               \* per process, callback, execution: invocations so far
    lastUpdate,            \* the last update_status call: old and new status, callbacks run
    clock,                 \* time.time()
    pc,                    \* position of delegate_with_tracking / delegate_runner
    execution_id,          \* the execution id delegate_with_tracking hands to the runner
    saving,                \* per process: its _save_state has opened the file and not finished
    delegateResult         \* the result of DelegateTool.execute in the runner

(***************************************************************************)
(* History selection (main.py). A text is represented by its length.       *)
(***************************************************************************)
VARIABLES
    selHistory,            \* the history given to get_history_fitting_token_limit
    selMaxTokens,          \* max_tokens
    selSystemTokens,       \* system_prompt_tokens
    selUserTokens,         \* user_prompt_tokens
    selResult              \* whether the call returned, and its (selected_messages, current_tokens)

selectVars == <<selHistory, selMaxTokens, selSystemTokens, selUserTokens, selResult>>

(***************************************************************************)
(* Requests of one session: the Telegram handler (telegram_integration.py) *)
(* running the CLI (main.py) over the session's history file.              *)
(***************************************************************************)
VARIABLES
    historyFile,           \* the session's history file: the list save_history wrote
    newThreadAgents,       \* the new-thread agent store: next_code and agents
    nextRequest,           \* the next incoming Telegram message
    handlerBusy,           \* the update handler is awaiting _process_message
    reqKind,               \* per message: "main", "new", "re" (None before it arrives)
    reqPc,                 \* per message: "unsent", "start", "loaded", "done"
    reqHistory,            \* per message: the history its CLI run loaded
    reqContext,            \* per message: the context_history put in its prompt
    reqFlags,              \* per message: the cursor_flags handed to the child agent
    reqCode,               \* per message: the agent code of a "new" / "re" message
    reqReturn              \* per message: the child's return code (-1 before exit)

cliVars == <<historyFile, newThreadAgents, nextRequest, handlerBusy, reqKind, reqPc,
             reqHistory, reqContext, reqFlags, reqCode, reqReturn>>

(***************************************************************************)
(* The scheduler (telegram_integration.py, reach_schedules.py). Time is    *)
(* counted in ticks, TicksPerMinute to the minute and MinutesPerDay        *)
(* minutes to the day; HH:MM is a minute of the day.                       *)
(***************************************************************************)
VARIABLES
    now,                   \* datetime.now(timezone.utc)
    interval,              \* interval_seconds of run_scheduler_loop, in ticks
    nextIterationAt,       \* when the loop's sleep ends
    lastIterationAt,       \* when the latest iteration started
    scheduleStore,         \* scheduled-notifications.json: id -> entry
    reachStore,            \* the reach schedules file: id -> schedule
    entryKind,             \* per id ever added: "once", "daily" or "cron"
    firedAt                \* per id: the times of its successful deliveries

schedVars == <<now, interval, nextIterationAt, lastIterationAt, scheduleStore, reachStore,
               entryKind, firedAt>>

(***************************************************************************)
(* The new-thread agent store with the outcomes of its file operations.    *)
(***************************************************************************)
VARIABLES
    agentsFile,            \* new-thread-agents.json: next_code and agents
    handedOut              \* the codes allocate_new_thread_agent returned, in order

agentVars == <<agentsFile, handedOut>>

(***************************************************************************)
(* Pairing (telegram_integration.py): the pairing file, the running bot    *)
(* and the CLI process of --telegram-approve.                              *)
(***************************************************************************)
VARIABLES
    pairingFile,           \* telegram-pairings.json
    botPairings,           \* the running bot's paired_users and pending_pairings
    botSave,               \* _save_pending_pairing between its read and its write
    cliBot,                \* the TelegramBot instance of the approving CLI process
    approvals,             \* the approvals attempted: typed code, chat found, result
    lastMessage            \* what _handle_message did with the message just handled

pairVars == <<pairingFile, botPairings, botSave, cliBot, approvals, lastMessage>>

\* The tool dispatcher (tool_executor.execute_tool_from_response).
VARIABLES runtime_integration, agent_response, updated_response, tool_results, dispatchPc
toolVars == <<runtime_integration, agent_response, updated_response, tool_results, dispatchPc>>

\* Summarization of an over-long history (main, summarize_history).
VARIABLES sumHistory, sumHistoryFile, compaction_count, lastSummarize,
          memory_flush_compaction_count, lastFlush
sumVars == <<sumHistory, sumHistoryFile, compaction_count, lastSummarize,
             memory_flush_compaction_count, lastFlush>>

\* The session store (openclaw_core.SessionStore) used by several processes.
VARIABLES storeFile, lockHolder, storeNow, storeCache, storePc, storeCall,
          storeLoaded, expectedStore, lastLoad
storeVars == <<storeFile, lockHolder, storeNow, storeCache, storePc, storeCall,
               storeLoaded, expectedStore, lastLoad>>

\* One pass of run_scheduler_loop over entries that go wrong.
VARIABLES loop_running, lastIteration
iterVars == <<loop_running, lastIteration>>

\* Model selection (openclaw_smart_delegate.select_model).
VARIABLES lastChoice
choiceVars == <<lastChoice>>

\* Chunking of a formatted message (telegram_integration.chunk_message_for_telegram).
VARIABLES lastChunks
chunkVars == <<lastChunks>>

\* The tracker's asyncio.Lock and the update_status calls of one event loop:
\* who holds the lock, who waits for it in order, the registered callbacks by
\* what they await, and where each call is.
VARIABLES lock_holder, lock_waiters, callback_kinds, callPc, callIndex, callTriggers, calls
lockVars == <<lock_holder, lock_waiters, callback_kinds, callPc, callIndex, callTriggers, calls>>

\* One caller of SessionStore.with_lock(fn) for any fn, and another process
\* that takes the same lock file.
VARIABLES lock_path, withLockPc, withLockCall, fn_runs, fn_outcome, withLockResult
withLockVars == <<lock_path, withLockPc, withLockCall, fn_runs, fn_outcome, withLockResult>>

trackerVars ==
    <<executions, stateFile, completion_callbacks, failing_callbacks, cbCalls, lastUpdate,
      clock>>
delegateVars == <<pc, execution_id, saving, delegateResult>>
vars == <<trackerVars, delegateVars, selectVars, cliVars, schedVars, agentVars, pairVars, toolVars, sumVars, storeVars, iterVars, choiceVars, chunkVars, lockVars, withLockVars>>

\* What the tracker operations, and the delegation steps, leave alone.
outsideTracker == <<delegateVars, selectVars, cliVars, schedVars, agentVars, pairVars, toolVars, sumVars, storeVars, iterVars, choiceVars, chunkVars, lockVars, withLockVars>>
outsideDelegate == <<selectVars, cliVars, schedVars, agentVars, pairVars, toolVars, sumVars, storeVars, iterVars, choiceVars, chunkVars, lockVars, withLockVars>>
outsideSelect == <<trackerVars, delegateVars, cliVars, schedVars, agentVars, pairVars, toolVars, sumVars, storeVars, iterVars, choiceVars, chunkVars, lockVars, withLockVars>>
outsideCli == <<trackerVars, delegateVars, selectVars, schedVars, agentVars, pairVars, toolVars, sumVars, storeVars, iterVars, choiceVars, chunkVars, lockVars, withLockVars>>
outsideSched == <<trackerVars, delegateVars, selectVars, cliVars, agentVars, pairVars, toolVars, sumVars, storeVars, iterVars, choiceVars, chunkVars, lockVars, withLockVars>>
outsideAgents == <<trackerVars, delegateVars, selectVars, cliVars, schedVars, pairVars, toolVars, sumVars, storeVars, iterVars, choiceVars, chunkVars, lockVars, withLockVars>>
outsidePairing == <<trackerVars, delegateVars, selectVars, cliVars, schedVars, agentVars, toolVars, sumVars, storeVars, iterVars, choiceVars, chunkVars, lockVars, withLockVars>>
outsideTools == <<trackerVars, delegateVars, selectVars, cliVars, schedVars, agentVars, pairVars, sumVars, storeVars, iterVars, choiceVars, chunkVars, lockVars, withLockVars>>
outsideSummary == <<trackerVars, delegateVars, selectVars, cliVars, schedVars, agentVars, pairVars, toolVars, storeVars, iterVars, choiceVars, chunkVars, lockVars, withLockVars>>
outsideStore == <<trackerVars, delegateVars, selectVars, cliVars, schedVars, agentVars, pairVars, toolVars, sumVars, iterVars, choiceVars, chunkVars, lockVars, withLockVars>>
outsideIter == <<trackerVars, delegateVars, selectVars, cliVars, schedVars, agentVars, pairVars, toolVars, sumVars, storeVars, choiceVars, chunkVars, lockVars, withLockVars>>
outsideChoice == <<trackerVars, delegateVars, selectVars, cliVars, schedVars, agentVars, pairVars, toolVars, sumVars, storeVars, iterVars, chunkVars, lockVars, withLockVars>>
outsideChunk == <<trackerVars, delegateVars, selectVars, cliVars, schedVars, agentVars, pairVars, toolVars, sumVars, storeVars, iterVars, choiceVars, lockVars, withLockVars>>
outsideLock == <<trackerVars, delegateVars, selectVars, cliVars, schedVars, agentVars, pairVars, toolVars, sumVars, storeVars, iterVars, choiceVars, chunkVars, withLockVars>>
outsideWithLock == <<trackerVars, delegateVars, selectVars, cliVars, schedVars, agentVars, pairVars, toolVars, sumVars, storeVars, iterVars, choiceVars, chunkVars, lockVars>>

Procs == {"parent", "runner"}
ExecIds == 1..MaxExec
Callbacks == 1..MaxCallbacks
None == "None"
\* The state file: absent; opened for writing and not yet complete (no JSON
\* document: what open(path, "w") leaves until json.dump has finished); or written.
NoFile == [exists |-> FALSE, valid |-> FALSE, executions |-> <<>>]
TruncatedFile == [exists |-> TRUE, valid |-> FALSE, executions |-> <<>>]

\* class SubagentStatus: the member names; StatusValue gives the JSON values.
SubagentStatus == {"STARTING", "RUNNING", "THINKING", "COMPLETED", "FAILED", "TIMEOUT", "CANCELLED"}

StatusValue(s) ==
    CASE s = "STARTING" -> "starting"
      [] s = "RUNNING" -> "running"
      [] s = "THINKING" -> "thinking"
      [] s = "COMPLETED" -> "completed"
      [] s = "FAILED" -> "failed"
      [] s = "TIMEOUT" -> "timeout"
      [] s = "CANCELLED" -> "cancelled"

\* SubagentStatus(value): the member with that value.
StatusOfValue(v) == CHOOSE s \in SubagentStatus : StatusValue(s) = v

\* Execution.to_dict: the dataclass as a dict, the status by its value.
to_dict(e) ==
    [status |-> StatusValue(e.status), started_at |-> e.started_at,
     completed_at |-> e.completed_at, error |-> e.error,
     response_preview |-> e.response_preview, progress_updates |-> e.progress_updates]

\* Execution.from_dict.
from_dict(d) ==
    [status |-> StatusOfValue(d.status), started_at |-> d.started_at,
     completed_at |-> d.completed_at, error |-> d.error,
     response_preview |-> d.response_preview, progress_updates |-> d.progress_updates]

\* The statuses update_status stamps completed_at for.
StampedStatuses == {"COMPLETED", "FAILED", "TIMEOUT", "CANCELLED"}
\* The statuses update_status runs the completion callbacks for.
CallbackStatuses == {"COMPLETED", "FAILED", "TIMEOUT"}
\* get_active_executions: active_statuses.
ActiveStatuses == {"STARTING", "RUNNING", "THINKING"}

\* time.time() at the current step.
Now == clock + 1

\* _save_state: the whole in-memory map, serialised, replaces the file.
SavedState(execs) ==
    [exists |-> TRUE, valid |-> TRUE,
     executions |-> [id \in DOMAIN execs |-> to_dict(execs[id])]]

LoadedNothing(execs, file) == execs

\* _load_state: every record of the file is put over the in-memory map; a
\* missing file, or one json.load cannot parse, leaves the map as it is.
LoadedState(execs, file) ==
    IF ~file.exists \/ ~file.valid THEN execs
    ELSE [id \in (DOMAIN execs) \cup (DOMAIN file.executions) |->
            IF id \in DOMAIN file.executions
            THEN from_dict(file.executions[id]) ELSE execs[id]]

\* uuid.uuid4(): an id no record has.
FreshIds == {id \in ExecIds :
                /\ \A p \in Procs : id \notin DOMAIN executions[p]
                /\ id \notin DOMAIN stateFile.executions}

NewExecution ==
    [status |-> "STARTING", started_at |-> Now, completed_at |-> 0,
     error |-> None, response_preview |-> None, progress_updates |-> <<>>]

NoUpdate ==
    [id |-> 0, old |-> None, new |-> None, ran |-> FALSE, invoked |-> {}, raised |-> FALSE]

\* start_execution: the in-memory map with the new record.
StartedExecutions(execs, id) == (id :> NewExecution) @@ execs

\* update_status: the record it leaves in memory.
UpdatedExecution(e, status, err) ==
    [e EXCEPT !.status = status,
              !.completed_at = IF status \in StampedStatuses THEN Now ELSE @,
              !.error = IF err # None THEN err ELSE @]

\* Whether update_status triggers the completion callbacks.
TriggersCallbacks(old_status, status) ==
    old_status # status /\ status \in CallbackStatuses

CallbackUncaught(c, failing) == IF c \in failing THEN "raised" ELSE "returned"

\* update_status: the try around one callback; "except Exception" logs.
CallbackOutcome(c, failing) == IF c \in failing THEN "logged" ELSE "returned"

\* update_status: the loop over the callbacks runs until an exception escapes
\* from one.
InvokedCallbacks(n, failing) ==
    {c \in 1..n : \A d \in 1..(c - 1) : CallbackOutcome(d, failing) # "raised"}

\* An exception leaves update_status.
CallbackRaised(n, failing) ==
    \E c \in 1..n : CallbackOutcome(c, failing) = "raised"

\* update_status: every registered callback of p is called once with the record.
CallbacksRun(p, id) ==
    [cbCalls EXCEPT ![p] =
        [c \in Callbacks |->
            IF c \in InvokedCallbacks(completion_callbacks[p], failing_callbacks[p])
            THEN [@[c] EXCEPT ![id] = @ + 1] ELSE @[c]]]

\* update_status, up to its save: the found record is changed in memory and the
\* callbacks that will run after the save are counted.
UpdateInMemory(p, id, status, err) ==
    LET old_status == executions[p][id].status
        ran == TriggersCallbacks(old_status, status)
    IN /\ executions' = [executions EXCEPT ![p][id] = UpdatedExecution(@, status, err)]
       /\ cbCalls' = IF ran THEN CallbacksRun(p, id) ELSE cbCalls
       /\ lastUpdate' =
            [id |-> id, old |-> old_status, new |-> status, ran |-> ran,
             invoked |-> IF ran THEN InvokedCallbacks(completion_callbacks[p],
                                                     failing_callbacks[p])
                         ELSE {},
             raised |-> ran /\ CallbackRaised(completion_callbacks[p], failing_callbacks[p])]
       /\ clock' = clock + 1
       /\ UNCHANGED <<completion_callbacks, failing_callbacks>>

\* add_progress_update, up to its save.
ProgressInMemory(p, id, message) ==
    /\ executions' = [executions EXCEPT ![p][id].progress_updates = Append(@, message)]
    /\ clock' = clock + 1
    /\ lastUpdate' = NoUpdate
    /\ UNCHANGED <<completion_callbacks, failing_callbacks, cbCalls>>

\* set_response_preview, up to its save.
PreviewInMemory(p, id, preview) ==
    /\ executions' = [executions EXCEPT ![p][id].response_preview = preview]
    /\ lastUpdate' = NoUpdate
    /\ UNCHANGED <<completion_callbacks, failing_callbacks, cbCalls, clock>>

\* start_execution, up to its save.
StartInMemory(p, id) ==
    /\ executions' = [executions EXCEPT ![p] = StartedExecutions(@, id)]
    /\ clock' = clock + 1
    /\ lastUpdate' = NoUpdate
    /\ UNCHANGED <<completion_callbacks, failing_callbacks, cbCalls>>

\* A call whose execution id the tracker does not hold: logged, nothing changes.
NotFound == UNCHANGED trackerVars

\* SubagentTracker.start_execution
start_execution(p, id) ==
    /\ id \in FreshIds
    /\ StartInMemory(p, id)
    /\ stateFile' = SavedState(executions'[p])

\* SubagentTracker.update_status
update_status(p, id, status, err) ==
    IF id \notin DOMAIN executions[p] THEN NotFound
    ELSE UpdateInMemory(p, id, status, err) /\ stateFile' = SavedState(executions'[p])

\* SubagentTracker.add_progress_update
add_progress_update(p, id, message) ==
    IF id \notin DOMAIN executions[p] THEN NotFound
    ELSE ProgressInMemory(p, id, message) /\ stateFile' = SavedState(executions'[p])

\* SubagentTracker.set_response_preview
set_response_preview(p, id, preview) ==
    IF id \notin DOMAIN executions[p] THEN NotFound
    ELSE PreviewInMemory(p, id, preview) /\ stateFile' = SavedState(executions'[p])

\* SubagentTracker.register_completion_callback
register_completion_callback(p) == \E raises \in BOOLEAN :
    /\ completion_callbacks[p] < MaxCallbacks
    /\ completion_callbacks' = [completion_callbacks EXCEPT ![p] = @ + 1]
    /\ failing_callbacks' =
          [failing_callbacks EXCEPT ![p] =
              IF raises THEN @ \cup {completion_callbacks[p] + 1} ELSE @]
    /\ lastUpdate' = NoUpdate
    /\ UNCHANGED <<executions, stateFile, cbCalls, clock>>

InitTracker ==
    /\ executions = [p \in Procs |-> <<>>]
    /\ stateFile = NoFile
    /\ completion_callbacks = [p \in Procs |-> 0]
    /\ failing_callbacks = [p \in Procs |-> {}]
    /\ cbCalls = [p \in Procs |-> [c \in Callbacks |-> [id \in ExecIds |-> 0]]]
    /\ lastUpdate = NoUpdate
    /\ clock = 0

(***************************************************************************)
(* One tracker, any sequence of calls on it.                               *)
(***************************************************************************)
TrackerStart == \E id \in ExecIds :
    clock < MaxClock /\ start_execution("parent", id) /\ UNCHANGED outsideTracker

TrackerUpdate == \E id \in ExecIds, s \in SubagentStatus, err \in {None, "err"} :
    /\ clock < MaxClock
    /\ id \in DOMAIN executions["parent"]
    /\ update_status("parent", id, s, err)
    /\ UNCHANGED outsideTracker

TrackerProgress == \E id \in ExecIds :
    /\ clock < MaxClock
    /\ id \in DOMAIN executions["parent"]
    /\ Len(executions["parent"][id].progress_updates) < MaxProgress
    /\ add_progress_update("parent", id, "msg")
    /\ UNCHANGED outsideTracker

TrackerPreview == \E id \in ExecIds :
    /\ id \in DOMAIN executions["parent"]
    /\ executions["parent"][id].response_preview = None
    /\ set_response_preview("parent", id, "preview")
    /\ UNCHANGED outsideTracker

TrackerRegister == register_completion_callback("parent") /\ UNCHANGED outsideTracker

\* The process ends and a new one constructs its tracker: an empty map and no
\* callbacks, then _load_state.
TrackerRestart ==
    /\ executions' = [executions EXCEPT !["parent"] = LoadedState(<<>>, stateFile)]
    /\ completion_callbacks' = [completion_callbacks EXCEPT !["parent"] = 0]
    /\ failing_callbacks' = [failing_callbacks EXCEPT !["parent"] = {}]
    /\ lastUpdate' = NoUpdate
    /\ UNCHANGED <<stateFile, cbCalls, clock>>
    /\ UNCHANGED outsideTracker

(***************************************************************************)
(* Token-budgeted history selection.                                       *)
(***************************************************************************)
CHARS_PER_TOKEN == 4
DEFAULT_MEMORY_FLUSH_SOFT_TOKENS == 4000
DEFAULT_MEMORY_FLUSH_RESERVE_TOKENS_FLOOR == 20000
SAFETY_BUFFER == 1000
HistoryHeaderLen == 38      \* len("=== START OF CONVERSATION HISTORY ===\n")
HistoryFooterLen == 37      \* len("=== END OF CONVERSATION HISTORY ===\n\n")

\* estimate_tokens(text), text given by its length.
estimate_tokens(text) == text \div CHARS_PER_TOKEN

RoleLabelLen(label) ==
    CASE label = "User" -> 4
      [] label = "Agent" -> 5
      [] label = "SYSTEM SUMMARY" -> 14

\* format_message(role, content): len(f"{role}: {content}\n\n").
format_message(label, content) == RoleLabelLen(label) + 2 + content + 2

\* available_tokens of get_history_fitting_token_limit.
AvailableTokens(max_tokens, system_prompt_tokens, user_prompt_tokens) ==
    max_tokens - system_prompt_tokens - user_prompt_tokens - SAFETY_BUFFER

SummaryFitsOrEqual(summary_tokens, available_tokens) == summary_tokens <= available_tokens
MessageFitsAlone(current_tokens, msg_tokens, available_tokens) == msg_tokens <= available_tokens

\* The summary is included when summary_tokens < available_tokens.
SummaryFits(summary_tokens, available_tokens) == summary_tokens < available_tokens

\* A recent message is taken when current_tokens + msg_tokens <= available_tokens.
MessageFits(current_tokens, msg_tokens, available_tokens) ==
    current_tokens + msg_tokens <= available_tokens

\* The label get_history_fitting_token_limit formats a recent message with.
RecentLabel(item) == IF item.role = "user" THEN "User" ELSE "Agent"

RECURSIVE TakeRecentSkipping(_, _, _, _)
TakeRecentSkipping(remaining, i, current_tokens, available_tokens) ==
    IF i = 0 THEN [messages |-> <<>>, tokens |-> current_tokens]
    ELSE LET item == remaining[i]
             msg_tokens == estimate_tokens(format_message(RecentLabel(item), item.content))
             fits == current_tokens + msg_tokens <= available_tokens
             older == TakeRecentSkipping(remaining, i - 1,
                                         IF fits THEN current_tokens + msg_tokens
                                         ELSE current_tokens, available_tokens)
         IN [messages |-> IF fits THEN Append(older.messages, item) ELSE older.messages,
             tokens |-> older.tokens]

\* The loop over reversed(remaining_history), from index i down, and the
\* reversal back: the taken messages in chronological order, and current_tokens.
RECURSIVE TakeRecent(_, _, _, _)
TakeRecent(remaining, i, current_tokens, available_tokens) ==
    IF i = 0 THEN [messages |-> <<>>, tokens |-> current_tokens]
    ELSE LET item == remaining[i]
             msg_tokens == estimate_tokens(format_message(RecentLabel(item), item.content))
         IN IF MessageFits(current_tokens, msg_tokens, available_tokens)
            THEN LET older == TakeRecent(remaining, i - 1, current_tokens + msg_tokens,
                                         available_tokens)
                 IN [messages |-> Append(older.messages, item), tokens |-> older.tokens]
            ELSE [messages |-> <<>>, tokens |-> current_tokens]

get_history_fitting_token_limit(history, max_tokens, system_prompt_tokens, user_prompt_tokens) ==
    LET available_tokens ==
            AvailableTokens(max_tokens, system_prompt_tokens, user_prompt_tokens)
    IN IF history = <<>> \/ available_tokens <= 0
       THEN [selected |-> <<>>, tokens |-> 0]
       ELSE LET has_summary == history[1].role = "system"
                remaining_history == IF has_summary THEN Tail(history) ELSE history
                summary_tokens ==
                    estimate_tokens(format_message("SYSTEM SUMMARY", history[1].content))
                included == has_summary /\ SummaryFits(summary_tokens, available_tokens)
                recent == TakeRecent(remaining_history, Len(remaining_history),
                                     IF included THEN summary_tokens ELSE 0, available_tokens)
            IN [selected |-> (IF included THEN <<history[1]>> ELSE <<>>) \o recent.messages,
                tokens |-> recent.tokens]

\* The label format_history_for_prompt renders an entry with.
PromptLabel(item) ==
    IF item.role = "system" THEN "SYSTEM SUMMARY"
    ELSE IF item.role = "user" THEN "User" ELSE "Agent"

RECURSIVE EntriesLen(_)
EntriesLen(history) ==
    IF history = <<>> THEN 0
    ELSE format_message(PromptLabel(Head(history)), Head(history).content)
         + EntriesLen(Tail(history))

\* format_history_for_prompt(history): the length of the rendered block.
format_history_for_prompt(history) ==
    IF history = <<>> THEN 0
    ELSE HistoryHeaderLen + EntriesLen(history) + HistoryFooterLen

\* The inputs of the selection: histories of at most MaxHist entries whose
\* system entry, if any, is the first; contents of a few lengths; budgets
\* around the reserve.
ContentLens == {0, 5, 13}
Entries(roles) == [role : roles, content : ContentLens]
Histories ==
    {<<>>} \cup
    UNION {{<<first>> \o rest : first \in Entries({"system", "user", "agent"}),
                                rest \in [1..n -> Entries({"user", "agent"})]} :
             n \in 0..(MaxHist - 1)}
SystemTokenInputs == {0, 2}
UserTokenInputs == {5}
MaxTokenInputs == (SAFETY_BUFFER + 4)..(SAFETY_BUFFER + 5 + MaxAvailable)

NoResult == [called |-> FALSE, selected |-> <<>>, tokens |-> 0]

InitSelect ==
    /\ selHistory \in Histories
    /\ selMaxTokens \in MaxTokenInputs
    /\ selSystemTokens \in SystemTokenInputs
    /\ selUserTokens \in UserTokenInputs
    /\ selResult = NoResult

\* One call of get_history_fitting_token_limit on the inputs.
SelectContext ==
    /\ selResult = NoResult
    /\ LET r == get_history_fitting_token_limit(selHistory, selMaxTokens,
                                                selSystemTokens, selUserTokens)
       IN selResult' = [called |-> TRUE, selected |-> r.selected, tokens |-> r.tokens]
    /\ UNCHANGED <<selHistory, selMaxTokens, selSystemTokens, selUserTokens>>
    /\ UNCHANGED outsideSelect

NextSelect == SelectContext

NextTracker ==
    \/ TrackerStart
    \/ TrackerUpdate
    \/ TrackerProgress
    \/ TrackerPreview
    \/ TrackerRegister
    \/ TrackerRestart

(***************************************************************************)
(* delegate_with_tracking.py (the parent) and delegate_runner.py (the      *)
(* detached runner): two processes, each with its own tracker over the     *)
(* same state file. A save opens the file for writing, which truncates it, *)
(* and completes in a later step.                                          *)
(***************************************************************************)
InitDelegate ==
    /\ pc = [p \in Procs |-> "idle"]
    /\ execution_id = 0
    /\ saving = [p \in Procs |-> FALSE]
    /\ delegateResult = None

Goto(p, label) == pc' = [pc EXCEPT ![p] = label]
At(p, label) == pc[p] = label /\ ~saving[p]

\* _save_state reaches open(self.state_file, "w").
OpenForSave(p) ==
    /\ stateFile' = TruncatedFile
    /\ saving' = [saving EXCEPT ![p] = TRUE]

\* _save_state: json.dump completes.
SaveStep(p) ==
    /\ saving[p]
    /\ UNCHANGED outsideDelegate
    /\ stateFile' = SavedState(executions[p])
    /\ saving' = [saving EXCEPT ![p] = FALSE]
    /\ UNCHANGED <<executions, completion_callbacks, failing_callbacks, cbCalls, lastUpdate, clock,
                   pc, execution_id, delegateResult>>

\* get_tracker(): SubagentTracker.__init__, an empty map and then _load_state.
get_tracker(p) ==
    /\ executions' = [executions EXCEPT ![p] = LoadedState(<<>>, stateFile)]
    /\ lastUpdate' = NoUpdate
    /\ UNCHANGED <<stateFile, completion_callbacks, failing_callbacks, cbCalls, clock>>

DelegateUpdate(p, status, err) ==
    IF execution_id \notin DOMAIN executions[p] THEN NotFound /\ UNCHANGED saving
    ELSE UpdateInMemory(p, execution_id, status, err) /\ OpenForSave(p)

DelegateProgress(p, message) ==
    IF execution_id \notin DOMAIN executions[p] THEN NotFound /\ UNCHANGED saving
    ELSE ProgressInMemory(p, execution_id, message) /\ OpenForSave(p)

DelegatePreview(p, preview) ==
    IF execution_id \notin DOMAIN executions[p] THEN NotFound /\ UNCHANGED saving
    ELSE PreviewInMemory(p, execution_id, preview) /\ OpenForSave(p)

\* delegate_with_tracking: get_tracker(), then the persona lookup.
ParentInit == \E known \in BOOLEAN :
    /\ At("parent", "idle")
    /\ UNCHANGED outsideDelegate
    /\ get_tracker("parent")
    /\ Goto("parent", IF known THEN "start" ELSE "done")
    /\ UNCHANGED <<execution_id, saving, delegateResult>>

ParentStart == \E id \in FreshIds :
    /\ At("parent", "start")
    /\ UNCHANGED outsideDelegate
    /\ StartInMemory("parent", id)
    /\ OpenForSave("parent")
    /\ execution_id' = id
    /\ Goto("parent", "running")
    /\ UNCHANGED delegateResult

ParentRunning ==
    /\ At("parent", "running")
    /\ UNCHANGED outsideDelegate
    /\ DelegateUpdate("parent", "RUNNING", None)
    /\ Goto("parent", "progress1")
    /\ UNCHANGED <<execution_id, delegateResult>>

ParentProgress1 ==
    /\ At("parent", "progress1")
    /\ UNCHANGED outsideDelegate
    /\ DelegateProgress("parent", "p1")
    /\ Goto("parent", "spawn")
    /\ UNCHANGED <<execution_id, delegateResult>>

\* _run_delegate_task_subprocess: subprocess.Popen of delegate_runner.py.
ParentSpawn ==
    /\ At("parent", "spawn")
    /\ UNCHANGED outsideDelegate
    /\ pc' = [pc EXCEPT !["parent"] = "progress2", !["runner"] = "init"]
    /\ UNCHANGED <<trackerVars, execution_id, saving, delegateResult>>

ParentProgress2 ==
    /\ At("parent", "progress2")
    /\ UNCHANGED outsideDelegate
    /\ DelegateProgress("parent", "p2")
    /\ Goto("parent", "done")
    /\ UNCHANGED <<execution_id, delegateResult>>

\* run_delegate_task
RunnerInit ==
    /\ At("runner", "init")
    /\ UNCHANGED outsideDelegate
    /\ get_tracker("runner")
    /\ Goto("runner", "running")
    /\ UNCHANGED <<execution_id, saving, delegateResult>>

RunnerRunning ==
    /\ At("runner", "running")
    /\ UNCHANGED outsideDelegate
    /\ DelegateUpdate("runner", "RUNNING", None)
    /\ Goto("runner", "progress1")
    /\ UNCHANGED <<execution_id, delegateResult>>

RunnerProgress1 ==
    /\ At("runner", "progress1")
    /\ UNCHANGED outsideDelegate
    /\ DelegateProgress("runner", "r1")
    /\ Goto("runner", "progress2")
    /\ UNCHANGED <<execution_id, delegateResult>>

RunnerProgress2 ==
    /\ At("runner", "progress2")
    /\ UNCHANGED outsideDelegate
    /\ DelegateProgress("runner", "r2")
    /\ Goto("runner", "execute")
    /\ UNCHANGED <<execution_id, delegateResult>>

\* delegate_tool.execute: a success, a failure result (subprocess.TimeoutExpired
\* is returned as one, "timeout"), or an exception.
RunnerExecute == \E result \in {"success", "failure", "timeout", "exception"} :
    /\ At("runner", "execute")
    /\ UNCHANGED outsideDelegate
    /\ delegateResult' = result
    /\ Goto("runner", IF result = "success" THEN "preview" ELSE "failed")
    /\ UNCHANGED <<trackerVars, execution_id, saving>>

RunnerPreview ==
    /\ At("runner", "preview")
    /\ UNCHANGED outsideDelegate
    /\ DelegatePreview("runner", "response")
    /\ Goto("runner", "completed")
    /\ UNCHANGED <<execution_id, delegateResult>>

RunnerCompleted ==
    /\ At("runner", "completed")
    /\ UNCHANGED outsideDelegate
    /\ DelegateUpdate("runner", "COMPLETED", None)
    /\ Goto("runner", "done")
    /\ UNCHANGED <<execution_id, delegateResult>>

RunnerFailed ==
    /\ At("runner", "failed")
    /\ UNCHANGED outsideDelegate
    /\ DelegateUpdate("runner", "FAILED", "err")
    /\ Goto("runner", "done")
    /\ UNCHANGED <<execution_id, delegateResult>>

DelegateSave == \E p \in Procs : SaveStep(p)

\* The process dies between open(state_file, "w") and the end of json.dump.
CrashInSave(p) ==
    /\ saving[p]
    /\ saving' = [saving EXCEPT ![p] = FALSE]
    /\ pc' = [pc EXCEPT ![p] = "crashed"]
    /\ UNCHANGED <<trackerVars, execution_id, delegateResult>>
    /\ UNCHANGED outsideDelegate

DelegateCrash == \E p \in Procs : CrashInSave(p)

\* The parent and the runner when neither dies.
NextDelegateRuns ==
    \/ ParentInit
    \/ ParentStart
    \/ ParentRunning
    \/ ParentProgress1
    \/ ParentSpawn
    \/ ParentProgress2
    \/ RunnerInit
    \/ RunnerRunning
    \/ RunnerProgress1
    \/ RunnerProgress2
    \/ RunnerExecute
    \/ RunnerPreview
    \/ RunnerCompleted
    \/ RunnerFailed
    \/ DelegateSave

NextDelegate ==
    \/ ParentInit
    \/ ParentStart
    \/ ParentRunning
    \/ ParentProgress1
    \/ ParentSpawn
    \/ ParentProgress2
    \/ RunnerInit
    \/ RunnerRunning
    \/ RunnerProgress1
    \/ RunnerProgress2
    \/ RunnerExecute
    \/ RunnerPreview
    \/ RunnerCompleted
    \/ RunnerFailed
    \/ DelegateSave
    \/ DelegateCrash

(***************************************************************************)
(* The CLI run of one message and the Telegram routing around it.          *)
(***************************************************************************)
TOKEN_LIMIT == 100000
NEW_THREAD_AGENT_CODE_START == 1000

Requests == 1..MaxRequests

\* The options main()'s ArgumentParser defines that the bot could pass.
ParserOptions == {"--history-limit", "--system-prompt", "--chat", "--model"}

\* The command lines of _process_message and _process_message_fresh.
CommandLine(kind) ==
    IF kind = "main" THEN <<"--enable-runtime", "-p", "message">>
    ELSE <<"--enable-runtime", "--fresh", "-p", "message">>

StartsWithDash(arg) == arg \in {"--enable-runtime", "--fresh", "-p", "--force"}

\* parse_known_args: what the parser does not define is left in unknown_args.
unknown_args(argv) == SelectSeq(argv, LAMBDA arg : arg \notin ParserOptions)

\* main(): unknown args starting with "-" are forwarded to the child, and
\* "--force" is added.
cursor_flags(argv) == Append(SelectSeq(unknown_args(argv), StartsWithDash), "--force")

\* main(): the other unknown args are the user prompt.
user_prompt_parts(argv) ==
    SelectSeq(unknown_args(argv), LAMBDA arg : ~StartsWithDash(arg))

\* The pair main() appends on return code 0; contents by length.
UserEntry(r) == [role |-> "user", content |-> 5, req |-> r]
AgentEntry(r) == [role |-> "agent", content |-> 13, req |-> r]

\* estimate_tokens("User Current Request: " + user_prompt)
user_prompt_tokens(user_prompt) == estimate_tokens(22 + user_prompt)

\* load_history / save_history
load_history(file) == file
save_history(history) == history

NoAgents == [next_code |-> NEW_THREAD_AGENT_CODE_START, agents |-> <<>>]

AllocateSameCode(data) ==
    [next_code |-> data.next_code,
     agents |-> Append(data.agents,
                       [agent_code |-> data.next_code, status |-> "running",
                        last_response |-> 0])]

allocate_new_thread_agent(data) ==
    [next_code |-> data.next_code + 1,
     agents |-> Append(data.agents,
                       [agent_code |-> data.next_code, status |-> "running",
                        last_response |-> 0])]

update_new_thread_agent_response(data, agent_code, response) ==
    [data EXCEPT !.agents =
        [i \in DOMAIN data.agents |->
            IF data.agents[i].agent_code = agent_code
            THEN [data.agents[i] EXCEPT !.status = "completed", !.last_response = response]
            ELSE data.agents[i]]]

AgentCodes == {newThreadAgents.agents[i].agent_code : i \in DOMAIN newThreadAgents.agents}

InitCli ==
    /\ historyFile = <<>>
    /\ newThreadAgents = NoAgents
    /\ nextRequest = 1
    /\ handlerBusy = FALSE
    /\ reqKind = [r \in Requests |-> None]
    /\ reqPc = [r \in Requests |-> "unsent"]
    /\ reqHistory = [r \in Requests |-> <<>>]
    /\ reqContext = [r \in Requests |-> <<>>]
    /\ reqFlags = [r \in Requests |-> <<>>]
    /\ reqCode = [r \in Requests |-> 0]
    /\ reqReturn = [r \in Requests |-> -1]

\* _handle_message routes the next update; updates are handled one at a time.
Arrive(kind, code) ==
    /\ ~handlerBusy
    /\ nextRequest \in Requests
    /\ reqKind' = [reqKind EXCEPT ![nextRequest] = kind]
    /\ reqPc' = [reqPc EXCEPT ![nextRequest] = "start"]
    /\ reqCode' = [reqCode EXCEPT ![nextRequest] = code]
    /\ nextRequest' = nextRequest + 1
    /\ UNCHANGED <<historyFile, reqHistory, reqContext, reqFlags, reqReturn>>
    /\ UNCHANGED outsideCli

\* A main-stream message: the handler awaits _process_message.
HandleMain ==
    /\ Arrive("main", 0)
    /\ handlerBusy' = TRUE
    /\ UNCHANGED newThreadAgents

\* A "new" message: allocate_new_thread_agent, then asyncio.create_task.
HandleNew ==
    /\ Arrive("new", newThreadAgents.next_code)
    /\ newThreadAgents' = allocate_new_thread_agent(newThreadAgents)
    /\ UNCHANGED handlerBusy

\* "/re <code> <body>" for a known agent: asyncio.create_task.
HandleRe == \E code \in AgentCodes :
    /\ Arrive("re", code)
    /\ UNCHANGED <<newThreadAgents, handlerBusy>>

\* main() up to the start of the child: flags and prompt separated, the
\* history loaded, the context selected and put in the prompt.
CliLoad(r) ==
    /\ reqPc[r] = "start"
    /\ user_prompt_parts(CommandLine(reqKind[r])) # <<>>
    /\ LET history == load_history(historyFile)
           context == get_history_fitting_token_limit(
                          history, TOKEN_LIMIT, 0, user_prompt_tokens(UserEntry(r).content))
       IN /\ reqHistory' = [reqHistory EXCEPT ![r] = history]
          /\ reqContext' = [reqContext EXCEPT ![r] = context.selected]
    /\ reqFlags' = [reqFlags EXCEPT ![r] = cursor_flags(CommandLine(reqKind[r]))]
    /\ reqPc' = [reqPc EXCEPT ![r] = "loaded"]
    /\ UNCHANGED <<historyFile, newThreadAgents, nextRequest, handlerBusy, reqKind,
                   reqCode, reqReturn>>
    /\ UNCHANGED outsideCli

\* The child exits: on return code 0 main() appends the pair and saves the
\* history. Back in the bot, the main stream replies and takes the next
\* update; a "new" / "re" task stores the response in the agent store.
CliExit(r, returncode) ==
    /\ reqPc[r] = "loaded"
    /\ reqReturn' = [reqReturn EXCEPT ![r] = returncode]
    /\ historyFile' =
          IF returncode = 0
          THEN save_history(reqHistory[r] \o <<UserEntry(r), AgentEntry(r)>>)
          ELSE historyFile
    /\ reqPc' = [reqPc EXCEPT ![r] = "done"]
    /\ IF reqKind[r] = "main"
       THEN handlerBusy' = FALSE /\ UNCHANGED newThreadAgents
       ELSE /\ newThreadAgents' =
                  update_new_thread_agent_response(newThreadAgents, reqCode[r], r)
            /\ UNCHANGED handlerBusy
    /\ UNCHANGED <<nextRequest, reqKind, reqHistory, reqContext, reqFlags, reqCode>>
    /\ UNCHANGED outsideCli

CliStart == \E r \in Requests : CliLoad(r)
CliFinish == \E r \in Requests, returncode \in {0, 1} : CliExit(r, returncode)

NextCli ==
    \/ HandleMain
    \/ HandleNew
    \/ HandleRe
    \/ CliStart
    \/ CliFinish

(***************************************************************************)
(* Scheduled notifications and reach schedules.                            *)
(***************************************************************************)
NoTime == 0 - 1              \* None, or a time string that does not parse

TicksPerDay == TicksPerMinute * MinutesPerDay
MinuteOf(t) == t \div TicksPerMinute
MinuteOfDay(t) == MinuteOf(t) % MinutesPerDay
ValidTime(time) == time \in 0..(MinutesPerDay - 1)

\* One entry of each store; the entries of a store are handled one by one.
EntryIds == {<<"notification", 1>>, <<"reach", 1>>}
StoreIds(store) == {id \in EntryIds : id[1] = store}

NotYetPassed(next_run, t) == next_run < t

\* _parse_daily_next_run: today's HH:MM moves to tomorrow if next_run <= now.
AlreadyPassed(next_run, t) == next_run <= t

\* _parse_daily_next_run at time t for an entry's "time".
parse_daily_next_run(t, time) ==
    IF ~ValidTime(time) THEN NoTime
    ELSE LET next_run == (t \div TicksPerDay) * TicksPerDay + time * TicksPerMinute
         IN IF AlreadyPassed(next_run, t) THEN next_run + TicksPerDay ELSE next_run

\* The entry schedule_add appends.
NotificationEntry(schedule_type, time_spec) ==
    [schedule_type |-> schedule_type,
     time |-> IF schedule_type = "daily" THEN time_spec ELSE NoTime,
     once_at |-> IF schedule_type = "daily" THEN NoTime ELSE time_spec,
     last_run |-> NoTime, next_run |-> NoTime, enabled |-> TRUE]

\* The entry add_schedule appends: one of time, cron, once_at.
ReachSchedule(kind, spec) ==
    [time |-> IF kind = "daily" THEN spec ELSE NoTime,
     cron |-> IF kind = "cron" THEN spec ELSE NoTime,
     once_at |-> IF kind = "once" THEN spec ELSE NoTime,
     enabled |-> TRUE]

WithoutNextRun(e, t) == e

\* get_due_notifications: daily entries without next_run get one computed.
WithNextRun(e, t) ==
    IF e.enabled /\ e.schedule_type # "once" /\ e.next_run = NoTime
       /\ parse_daily_next_run(t, e.time) # NoTime
    THEN [e EXCEPT !.next_run = parse_daily_next_run(t, e.time)]
    ELSE e

\* get_due_notifications: whether entry e is appended to due.
NotificationDue(e, t) ==
    /\ e.enabled
    /\ IF e.schedule_type = "once"
       THEN e.once_at # NoTime /\ e.once_at <= t
       ELSE e.next_run # NoTime /\ e.next_run <= t

\* get_due_notifications: the due ids, and the store it persisted.
get_due_notifications(entries, t) ==
    [due |-> {id \in DOMAIN entries : NotificationDue(entries[id], t)},
     entries |-> [id \in DOMAIN entries |-> WithNextRun(entries[id], t)]]

SentEntryKept(e, t) == e

\* _mark_notification_sent: the daily entry after a send.
SentEntry(e, t) ==
    [e EXCEPT !.last_run = t, !.next_run = parse_daily_next_run(t, e.time)]

\* _mark_notification_sent for every sent id: one-shots are removed, daily
\* entries get last_run and next_run (and are dropped if next_run is None).
mark_notification_sent(entries, sent, t) ==
    LET kept == {id \in DOMAIN entries :
                    id \in sent =>
                        /\ entries[id].schedule_type # "once"
                        /\ parse_daily_next_run(t, entries[id].time) # NoTime}
    IN [id \in kept |-> IF id \in sent THEN SentEntry(entries[id], t) ELSE entries[id]]

\* _is_due_time and _is_due_cron: the schedule's HH:MM is the current minute.
is_due_time(t, time) == ValidTime(time) /\ MinuteOfDay(t) = time
is_due_cron(t, cron) == ValidTime(cron) /\ MinuteOfDay(t) = cron

\* get_due_schedules
get_due_schedules(schedules, t) ==
    {id \in DOMAIN schedules :
        LET sch == schedules[id]
        IN /\ sch.enabled
           /\ IF sch.once_at # NoTime THEN t >= sch.once_at
              ELSE IF sch.time # NoTime THEN is_due_time(t, sch.time)
              ELSE IF sch.cron # NoTime THEN is_due_cron(t, sch.cron)
              ELSE FALSE}

KeepFiredOneShots(schedules, fired) == schedules

\* fire_due_schedules_async: remove_schedule for every fired one-shot.
RemoveFiredOneShots(schedules, fired) ==
    [id \in {i \in DOMAIN schedules : ~(i \in fired /\ schedules[i].once_at # NoTime)}
        |-> schedules[id]]

InitSched ==
    /\ now = 0
    /\ interval \in 1..MaxInterval
    /\ nextIterationAt = 0
    /\ lastIterationAt = NoTime
    /\ scheduleStore = <<>>
    /\ reachStore = <<>>
    /\ entryKind = [id \in EntryIds |-> None]
    /\ firedAt = [id \in EntryIds |-> <<>>]

\* Time passes.
Tick ==
    /\ now < MaxTime
    /\ now' = now + 1
    /\ UNCHANGED <<interval, nextIterationAt, lastIterationAt, scheduleStore, reachStore,
                   entryKind, firedAt>>
    /\ UNCHANGED outsideSched

NewId(store) == {id \in StoreIds(store) : entryKind[id] = None}

OnceAtInputs == {t \in {now - 1, now, now + 1} : t \in 0..MaxTime}
TimeInputs == (0..(MinutesPerDay - 1)) \cup {NoTime}

\* schedule_add(schedule_type, message, time_spec)
ScheduleAdd == \E id \in NewId("notification"), schedule_type \in {"once", "daily"} :
    \E time_spec \in IF schedule_type = "once" THEN OnceAtInputs ELSE TimeInputs :
        /\ scheduleStore' = (id :> NotificationEntry(schedule_type, time_spec)) @@ scheduleStore
        /\ entryKind' = [entryKind EXCEPT ![id] = schedule_type]
        /\ UNCHANGED <<now, interval, nextIterationAt, lastIterationAt, reachStore, firedAt>>
        /\ UNCHANGED outsideSched

\* add_schedule(time=..., cron=..., once_at=..., message=...)
ReachAdd == \E id \in NewId("reach"), kind \in {"once", "daily", "cron"} :
    \E spec \in IF kind = "once" THEN OnceAtInputs ELSE 0..(MinutesPerDay - 1) :
        /\ reachStore' = (id :> ReachSchedule(kind, spec)) @@ reachStore
        /\ entryKind' = [entryKind EXCEPT ![id] = kind]
        /\ UNCHANGED <<now, interval, nextIterationAt, lastIterationAt, scheduleStore, firedAt>>
        /\ UNCHANGED outsideSched

\* run_scheduler_iteration, then the loop's sleep of interval ticks. The
\* sends succeed for the ids in ok; elapsed is the time the sends of the
\* notifications take.
RunSchedulerIteration == \E ok \in SUBSET EntryIds, elapsed \in {0, 1} :
    /\ now >= nextIterationAt
    /\ now + elapsed <= MaxTime
    /\ LET found == get_due_notifications(scheduleStore, now)
           sent == found.due \cap ok
           later == now + elapsed
           due == get_due_schedules(reachStore, later)
           fired == due \cap ok
       IN /\ scheduleStore' = mark_notification_sent(found.entries, sent, later)
          /\ reachStore' = RemoveFiredOneShots(reachStore, fired)
          /\ firedAt' = [id \in EntryIds |->
                            IF id \in sent THEN Append(firedAt[id], now)
                            ELSE IF id \in fired THEN Append(firedAt[id], later)
                            ELSE firedAt[id]]
          /\ now' = later
          /\ nextIterationAt' = later + interval
          /\ lastIterationAt' = now
    /\ UNCHANGED <<interval, entryKind>>
    /\ UNCHANGED outsideSched

NextSched ==
    \/ Tick
    \/ ScheduleAdd
    \/ ReachAdd
    \/ RunSchedulerIteration

InitIdleSched ==
    /\ now = 0 /\ interval = 1 /\ nextIterationAt = 0 /\ lastIterationAt = NoTime
    /\ scheduleStore = <<>> /\ reachStore = <<>>
    /\ entryKind = [id \in EntryIds |-> None]
    /\ firedAt = [id \in EntryIds |-> <<>>]

(***************************************************************************)
(* The agent store's operations with failing loads and saves.              *)
(***************************************************************************)
\* _load_new_thread_agents: a file that cannot be read or parsed is
\* treated as an empty store.
load_new_thread_agents(file, load_ok) == IF load_ok THEN file ELSE NoAgents

\* _save_new_thread_agents: a failed write is logged and swallowed.
save_new_thread_agents(file, data, save_ok) == IF save_ok THEN data ELSE file

HasAgent(data, agent_code) ==
    \E i \in DOMAIN data.agents : data.agents[i].agent_code = agent_code

InitAgents ==
    /\ agentsFile = NoAgents
    /\ handedOut = <<>>

\* allocate_new_thread_agent(task, chat_id, user_id)
AgentAllocate == \E load_ok \in BOOLEAN, save_ok \in BOOLEAN :
    /\ Len(handedOut) < MaxAllocations
    /\ LET data == load_new_thread_agents(agentsFile, load_ok)
       IN /\ agentsFile' = save_new_thread_agents(agentsFile,
                                                  allocate_new_thread_agent(data), save_ok)
          /\ handedOut' = Append(handedOut, data.next_code)
    /\ UNCHANGED outsideAgents

\* update_new_thread_agent_response(agent_code, response)
AgentUpdate == \E i \in DOMAIN handedOut, load_ok \in BOOLEAN, save_ok \in BOOLEAN :
    /\ LET data == load_new_thread_agents(agentsFile, load_ok)
       IN agentsFile' =
             IF HasAgent(data, handedOut[i])
             THEN save_new_thread_agents(
                      agentsFile,
                      update_new_thread_agent_response(data, handedOut[i], i), save_ok)
             ELSE agentsFile
    /\ UNCHANGED handedOut
    /\ UNCHANGED outsideAgents

NextAgents ==
    \/ AgentAllocate
    \/ AgentUpdate

(***************************************************************************)
(* Pairing codes and their approval. A code is its six characters, kept    *)
(* as the chat it was generated for, and the letter case it is written in. *)
(***************************************************************************)
Chats == 1..MaxChats
Casings == {"upper", "lower", "mixed"}

KeepCase(code) == code

\* str.upper()
upper(code) == [code EXCEPT !.casing = "upper"]

\* _generate_pairing_code: six characters of ascii_uppercase + digits.
generate_pairing_code(chat) == [chars |-> chat, casing |-> "upper"]

\* The codes a user can type: a generated code, or one never generated
\* (chars 0), in any letter case.
TypedCodes == [chars : Chats \cup {0}, casing : Casings]

\* approve_pairing: pairing_code.upper() == code.upper()
SameCode(pairing_code, code) == upper(pairing_code) = upper(code)

NoPairingFile == [exists |-> FALSE, paired_users |-> {}, pending_pairings |-> <<>>]
NoPairings == [paired_users |-> {}, pending_pairings |-> <<>>]
NoSave == [active |-> FALSE, chat |-> 0, data |-> NoPairings]
NoCliBot == [loaded |-> FALSE, paired_users |-> {}, pending_pairings |-> <<>>]
NoMessage ==
    [handled |-> FALSE, chat |-> 0, text |-> "hello", in_file |-> FALSE, in_memory |-> FALSE,
     route |-> None]

\* _load_pairings: memory takes the file's content; without a file it stays.
load_pairings(memory, file) ==
    IF file.exists
    THEN [paired_users |-> file.paired_users, pending_pairings |-> file.pending_pairings]
    ELSE memory

\* The chats whose pending code matches the typed one.
Matching(pending, code) == {c \in DOMAIN pending : SameCode(pending[c], code)}

\* The pending map without the chat.
WithoutChat(pending, chat) == [c \in DOMAIN pending \ {chat} |-> pending[c]]

InitPairing ==
    /\ pairingFile = NoPairingFile
    /\ botPairings = NoPairings
    /\ botSave = NoSave
    /\ cliBot = NoCliBot
    /\ approvals = <<>>
    /\ lastMessage = NoMessage

\* The texts of a message: plain, "new ...", "/re <code> ..." and
\* "detached: ...".
MessageTexts == {"hello", "new task", "/re 1 more", "detached: task"}

\* _handle_message behind the access check: where the text goes.
message_route(text) ==
    CASE text = "new task" -> "new_thread"
      [] text = "/re 1 more" -> "reply_thread"
      [] text = "detached: task" -> "detached_run"
      [] OTHER -> "process_message"

AllowedOrPending(chat, memory) ==
    chat \in memory.paired_users \/ chat \in DOMAIN memory.pending_pairings

\* _is_allowed_user under the pairing policy, after its reload.
is_allowed_user(chat, memory) == chat \in memory.paired_users

Handled(chat, text, route) ==
    [handled |-> TRUE, chat |-> chat, text |-> text,
     in_file |-> chat \in pairingFile.paired_users,
     in_memory |-> chat \in botPairings.paired_users,
     route |-> route]

\* _handle_message of a private chat under the pairing policy:
\* _is_allowed_user reloads the pairings; an allowed chat's text is routed;
\* an unpaired chat with a pending code is reminded of it; one without gets a
\* code, and _save_pending_pairing reads the file.
BotMessage(chat, text) ==
    /\ ~botSave.active
    /\ LET memory == load_pairings(botPairings, pairingFile)
       IN IF is_allowed_user(chat, memory)
          THEN /\ botPairings' = memory
               /\ lastMessage' = Handled(chat, text, message_route(text))
               /\ UNCHANGED botSave
          ELSE IF chat \in DOMAIN memory.pending_pairings
          THEN /\ botPairings' = memory
               /\ lastMessage' = Handled(chat, text, "reminder")
               /\ UNCHANGED botSave
          ELSE /\ botPairings' =
                     [memory EXCEPT !.pending_pairings =
                         (chat :> generate_pairing_code(chat)) @@ memory.pending_pairings]
               /\ lastMessage' = Handled(chat, text, "pairing_code")
               /\ botSave' = [active |-> TRUE, chat |-> chat,
                              data |-> IF pairingFile.exists
                                       THEN [paired_users |-> pairingFile.paired_users,
                                             pending_pairings |-> pairingFile.pending_pairings]
                                       ELSE [paired_users |-> memory.paired_users,
                                             pending_pairings |-> <<>>]]
    /\ UNCHANGED <<pairingFile, cliBot, approvals>>
    /\ UNCHANGED outsidePairing

\* _save_pending_pairing: the write of the data read before.
BotWritePending ==
    /\ botSave.active
    /\ pairingFile' =
          [exists |-> TRUE,
           paired_users |-> botSave.data.paired_users,
           pending_pairings |->
               (botSave.chat :> generate_pairing_code(botSave.chat))
                   @@ botSave.data.pending_pairings]
    /\ botSave' = NoSave
    /\ lastMessage' = NoMessage
    /\ UNCHANGED <<botPairings, cliBot, approvals>>
    /\ UNCHANGED outsidePairing

\* main() with --telegram-approve: TelegramBot(config), whose __init__
\* loads the pairings.
CliConstruct ==
    /\ ~cliBot.loaded
    /\ Len(approvals) < MaxApprovals
    /\ cliBot' = [loaded |-> TRUE] @@ load_pairings(NoPairings, pairingFile)
    /\ lastMessage' = NoMessage
    /\ UNCHANGED <<pairingFile, botPairings, botSave, approvals>>
    /\ UNCHANGED outsidePairing

\* main(): bot.approve_pairing(args.telegram_approve.upper()), then exit.
CliApprove(typed) ==
    /\ cliBot.loaded
    /\ LET code == upper(typed)
           in_memory == Matching(cliBot.pending_pairings, code)
           stored == IF pairingFile.exists
                     THEN Matching(pairingFile.pending_pairings, code) ELSE {}
           found == IF in_memory # {} THEN in_memory ELSE stored
       IN IF found = {}
          THEN /\ approvals' = Append(approvals, [typed |-> typed, chat |-> 0, result |-> FALSE])
               /\ UNCHANGED pairingFile
          ELSE \E chat_id \in found :
               /\ pairingFile' =
                     [exists |-> TRUE,
                      paired_users |-> cliBot.paired_users \cup {chat_id},
                      pending_pairings |->
                          IF pairingFile.exists
                          THEN WithoutChat(pairingFile.pending_pairings, chat_id)
                          ELSE <<>>]
               /\ approvals' = Append(approvals,
                                      [typed |-> typed, chat |-> chat_id, result |-> TRUE])
    /\ cliBot' = NoCliBot
    /\ lastMessage' = NoMessage
    /\ UNCHANGED <<botPairings, botSave>>
    /\ UNCHANGED outsidePairing

BotReceive == \E chat \in Chats, text \in MessageTexts : BotMessage(chat, text)
CliApproval == \E typed \in TypedCodes : CliApprove(typed)

NextPairing ==
    \/ BotReceive
    \/ BotWritePending
    \/ CliConstruct
    \/ CliApproval

(***************************************************************************)
(* The tool dispatcher: tool_executor.execute_tool_from_response.  A       *)
(* response is a sequence of mentions, each one sentence that exactly one  *)
(* tool's patterns match: a URL, a quoted query closed by a full stop      *)
(* ("search the web for 'cats'."), "delegate to coder: ...", "weather in   *)
(* Paris.", "smart delegate: ...", "cursor agent list: ...".               *)
(***************************************************************************)
ToolOrder == <<"web_fetch", "web_search", "memory_search", "delegate",
               "weather", "smart_delegate", "cursor_agent">>

\* The slices urls[:3], search_queries[:2], memory_queries[:2], ...[:1].
Limit(tool) ==
    CASE tool = "web_fetch" -> 3
      [] tool = "web_search" -> 2
      [] tool = "memory_search" -> 2
      [] OTHER -> 1

ToolArgs(tool) ==
    CASE tool = "web_fetch" -> {"https://a", "https://b"}
      [] tool = "web_search" -> {"cats"}
      [] tool = "memory_search" -> {"notes"}
      [] tool = "delegate" -> {"coder"}
      [] tool = "weather" -> {"Paris"}
      [] tool = "smart_delegate" -> {"task"}
      [] tool = "cursor_agent" -> {"list"}

Mention(tool, arg) == [kind |-> "text", tool |-> tool, arg |-> arg]
Mentions == UNION {{Mention(ToolOrder[i], a) : a \in ToolArgs(ToolOrder[i])} : i \in DOMAIN ToolOrder}

\* Long enough to pass the caps: a mixed response one longer than the cap of
\* the searches, a run of URLs one longer than the cap of web_fetch.
MixedLen == Limit("web_search") + 1
UrlRunLen == Limit("web_fetch") + 1
Responses ==
    UNION {[1..k -> Mentions] : k \in 0..MixedLen}
        \cup [1..UrlRunLen -> {Mention("web_fetch", a) : a \in ToolArgs("web_fetch")}]

\* re.findall / re.finditer over the response: what the tool's patterns
\* capture, in text order.
RECURSIVE Extracted(_, _)
Extracted(resp, tool) ==
    IF resp = <<>> THEN <<>>
    ELSE (IF Head(resp).tool = tool THEN <<Head(resp).arg>> ELSE <<>>)
             \o Extracted(Tail(resp), tool)

\* "if city ... and city not in weather_cities": first occurrences only.
RECURSIVE Distinct(_)
Distinct(seq) ==
    IF seq = <<>> THEN <<>>
    ELSE LET rest == Distinct(SubSeq(seq, 1, Len(seq) - 1))
             last == seq[Len(seq)]
         IN IF \E i \in DOMAIN rest : rest[i] = last THEN rest ELSE Append(rest, last)

\* urls, search_queries, memory_queries, delegate_matches, weather_cities,
\* smart_delegate_matches, cursor_agent_matches.  Only the weather cities are
\* deduplicated; the additional web-search patterns add nothing here, as what
\* they capture from a quoted query is already in search_queries.
Matches(resp, tool) ==
    IF tool = "weather" THEN Distinct(Extracted(resp, tool)) ELSE Extracted(resp, tool)

Uncapped(seq, n) == seq

Capped(seq, n) == SubSeq(seq, 1, IF Len(seq) < n THEN Len(seq) ELSE n)

\* The calls the loops make: matches[:limit].
Calls(resp, tool) == Capped(Matches(resp, tool), Limit(tool))

\* tool_registry.execute: a result, a result with an "error" key (for the
\* delegates: success false), an empty result, or an exception.
Outcomes == {"ok", "error", "empty", "raise"}

\* The entry appended to tool_results: {"tool", <argument>, "result": result},
\* or in the except branch {"tool", <argument>, "error": str(e)}.
ResultEntry(tool, arg, outcome) ==
    [tool |-> tool, arg |-> IF tool = "smart_delegate" THEN "" ELSE arg,
     key |-> IF outcome = "raise" THEN "error" ELSE "result", value |-> outcome]

Block(kind, tool, arg) == [kind |-> kind, tool |-> tool, arg |-> arg]

\* What one call appends to updated_response.
Blocks(tool, arg, outcome) ==
    CASE tool = "web_fetch" ->
            (CASE outcome \in {"ok", "empty"} -> <<Block("Tool Result", tool, arg)>>
               [] outcome = "error" -> <<Block("Tool Error", tool, arg)>>
               [] outcome = "raise" -> <<>>)
      [] tool = "web_search" ->
            (CASE outcome = "ok" -> <<Block("Tool Result", tool, arg)>>
               [] outcome = "empty" -> <<Block("Tool Note", tool, arg)>>
               [] OTHER -> <<Block("Tool Error", tool, arg)>>)
      [] tool = "memory_search" ->
            (CASE outcome = "ok" -> <<Block("Tool Result", tool, arg)>>
               [] OTHER -> <<Block("Tool Error", tool, arg)>>)
      [] tool = "delegate" ->
            (CASE outcome = "ok" -> <<Block("Delegate Result", tool, arg)>>
               [] OTHER -> <<Block("Delegate Error", tool, arg)>>)
      [] tool = "weather" ->
            (CASE outcome = "ok" -> <<Block("Weather", tool, arg)>>
               [] OTHER -> <<Block("Weather Error", tool, "")>>)
      [] tool = "smart_delegate" ->
            (CASE outcome = "ok" ->
                    <<Block("announcement", tool, ""), Block("Smart Delegate Response", tool, "")>>
               [] outcome = "error" ->
                    <<Block("announcement", tool, ""), Block("Smart Delegate Error", tool, "")>>
               [] OTHER -> <<Block("Smart Delegate Error", tool, "")>>)
      [] OTHER ->
            (CASE outcome \in {"ok", "empty"} -> <<Block("Cursor Agent", tool, arg)>>
               [] outcome = "error" -> <<Block("Cursor Agent Error", tool, "")>>
               [] outcome = "raise" -> <<Block("Cursor Agent Error", tool, arg)>>)

CallResults(tool, args, outs) ==
    [i \in DOMAIN args |-> ResultEntry(tool, args[i], outs[i])]

RECURSIVE CallBlocks(_, _, _)
CallBlocks(tool, args, outs) ==
    IF args = <<>> THEN <<>>
    ELSE Blocks(tool, Head(args), Head(outs)) \o CallBlocks(tool, Tail(args), Tail(outs))

InitTools ==
    /\ runtime_integration = FALSE
    /\ agent_response = <<>>
    /\ updated_response = <<>>
    /\ tool_results = <<>>
    /\ dispatchPc = "idle"

\* execute_tool_from_response is called; without a runtime integration it
\* returns (agent_response, []) at once.
DispatchStart == \E resp \in Responses, given \in BOOLEAN :
    /\ dispatchPc = "idle"
    /\ runtime_integration' = given
    /\ agent_response' = resp
    /\ updated_response' = resp
    /\ tool_results' = <<>>
    /\ dispatchPc' = IF given THEN ToolOrder[1] ELSE "returned"
    /\ UNCHANGED outsideTools

\* One tool's loop over its calls, each with the outcome the registry gives.
Execute(tool, next) ==
    LET args == Calls(agent_response, tool)
    IN \E outs \in [DOMAIN args -> Outcomes] :
        /\ dispatchPc = tool
        /\ tool_results' = tool_results \o CallResults(tool, args, outs)
        /\ updated_response' = updated_response \o CallBlocks(tool, args, outs)
        /\ dispatchPc' = next
        /\ UNCHANGED <<runtime_integration, agent_response>>
        /\ UNCHANGED outsideTools

ExecuteWebFetch == Execute("web_fetch", "web_search")
ExecuteWebSearch == Execute("web_search", "memory_search")
ExecuteMemorySearch == Execute("memory_search", "delegate")
ExecuteDelegate == Execute("delegate", "weather")
ExecuteWeather == Execute("weather", "smart_delegate")
ExecuteSmartDelegate == Execute("smart_delegate", "cursor_agent")
ExecuteCursorAgent == Execute("cursor_agent", "returned")

NextTools ==
    \/ DispatchStart
    \/ ExecuteWebFetch
    \/ ExecuteWebSearch
    \/ ExecuteMemorySearch
    \/ ExecuteDelegate
    \/ ExecuteWeather
    \/ ExecuteSmartDelegate
    \/ ExecuteCursorAgent

(***************************************************************************)
(* Summarization: main's over-limit branch and summarize_history.          *)
(***************************************************************************)
\* len("Previous conversation summary: ")
SummaryPrefixLen == 31
\* A content long enough to take the whole history over TOKEN_LIMIT.
BigContent == CHARS_PER_TOKEN * TOKEN_LIMIT
SummaryLens == {0, 13}
\* subprocess.run of the summarizer: exit code 0, another exit code,
\* subprocess.TimeoutExpired, any other exception.
SummarizerOutcomes == {"zero", "nonzero", "timeout", "error"}

SummarizeAlways(history, outcome, summary) ==
    [history |-> <<[role |-> "system", content |-> SummaryPrefixLen + summary]>>
                    \o SubSeq(history, (Len(history) \div 2) + 1, Len(history)),
     summarized |-> TRUE]

SummarizeKeepingOld(history, outcome, summary) ==
    [history |-> <<[role |-> "system", content |-> SummaryPrefixLen + summary]>> \o history,
     summarized |-> TRUE]

\* summarize_history(history, cursor_flags): (new history, summarized).
summarize_history(history, outcome, summary) ==
    IF Len(history) < 2 THEN [history |-> history, summarized |-> FALSE]
    ELSE IF outcome = "zero"
    THEN [history |-> <<[role |-> "system", content |-> SummaryPrefixLen + summary]>>
                         \o SubSeq(history, (Len(history) \div 2) + 1, Len(history)),
          summarized |-> TRUE]
    ELSE [history |-> history, summarized |-> FALSE]

\* total_estimated of the smart token mode, for a prompt of 5 characters and
\* no system prompt.
total_estimated(history) ==
    estimate_tokens(format_history_for_prompt(history)) + 0 + user_prompt_tokens(5)

NoSummarize ==
    [called |-> FALSE, outcome |-> "zero", before |-> <<>>, returned |-> <<>>,
     summarized |-> FALSE, count_before |-> 0]

\* "memory_flush_compaction_count" is not in the metadata yet.
NotFlushed == 0 - 1

MaxOf(a, b) == IF a > b THEN a ELSE b

\* resolve_memory_flush_settings with the defaults.
memory_flush_settings ==
    [soft_threshold_tokens |-> DEFAULT_MEMORY_FLUSH_SOFT_TOKENS,
     reserve_tokens_floor |-> DEFAULT_MEMORY_FLUSH_RESERVE_TOKENS_FLOOR]

\* threshold of should_run_memory_flush.
FlushThreshold(settings) ==
    MaxOf(0, MaxOf(1, TOKEN_LIMIT) - MaxOf(0, settings.reserve_tokens_floor)
                 - MaxOf(0, settings.soft_threshold_tokens))

\* A content that takes a history to the flush threshold but not over
\* TOKEN_LIMIT.
MidContent == CHARS_PER_TOKEN * FlushThreshold(memory_flush_settings)

ShouldRunAboveThreshold(total_tokens, settings, meta) ==
    total_tokens >= FlushThreshold(settings)

\* should_run_memory_flush(total_tokens, settings, meta)
should_run_memory_flush(total_tokens, settings, meta) ==
    IF total_tokens <= 0 THEN FALSE
    ELSE IF FlushThreshold(settings) <= 0 THEN FALSE
    ELSE IF total_tokens < FlushThreshold(settings) THEN FALSE
    ELSE IF /\ meta.memory_flush_compaction_count # NotFlushed
            /\ meta.memory_flush_compaction_count = meta.compaction_count + 1
    THEN FALSE
    ELSE TRUE

\* history_meta as main holds it.
history_meta ==
    [compaction_count |-> compaction_count,
     memory_flush_compaction_count |-> memory_flush_compaction_count]

FlushedTwoAhead(meta) == meta.compaction_count + 2

\* main: history_meta["memory_flush_compaction_count"] = compaction_count + 1
FlushedCompaction(meta) == meta.compaction_count + 1

NoFlush == [ran |-> FALSE, ok |-> FALSE, for |-> 0]

InitSummary ==
    /\ sumHistory = <<>>
    /\ sumHistoryFile = <<>>
    /\ compaction_count = 0
    /\ lastSummarize = NoSummarize
    /\ memory_flush_compaction_count = NotFlushed
    /\ lastFlush = NoFlush

\* main, pre-compaction memory flush: when should_run_memory_flush says so,
\* run_memory_flush; when it returns True, record the flush and save the
\* metadata.
SessionFlush == \E ok \in BOOLEAN :
    /\ should_run_memory_flush(total_estimated(sumHistory), memory_flush_settings,
                               history_meta)
    /\ memory_flush_compaction_count' =
          IF ok THEN FlushedCompaction(history_meta) ELSE memory_flush_compaction_count
    /\ lastFlush' = [ran |-> TRUE, ok |-> ok, for |-> compaction_count + 1]
    /\ UNCHANGED <<sumHistory, sumHistoryFile, compaction_count, lastSummarize>>
    /\ UNCHANGED outsideSummary

\* A successful request below the limit: main appends the user and the agent
\* entry and saves.
SessionExchange == \E user_len, agent_len \in {5, MidContent, BigContent} :
    /\ Len(sumHistory) + 2 <= MaxSession
    /\ sumHistory' = sumHistory \o <<[role |-> "user", content |-> user_len],
                                     [role |-> "agent", content |-> agent_len]>>
    /\ sumHistoryFile' = save_history(sumHistory')
    /\ lastSummarize' = NoSummarize
    /\ lastFlush' = NoFlush
    /\ UNCHANGED <<compaction_count, memory_flush_compaction_count>>
    /\ UNCHANGED outsideSummary

\* main, smart token mode with the history over the limit: summarize, count
\* the compaction if summarized, save the history.
SessionCompact == \E outcome \in SummarizerOutcomes, summary \in SummaryLens :
    LET result == summarize_history(sumHistory, outcome, summary)
    IN /\ compaction_count < MaxCompactions
       /\ total_estimated(sumHistory) > TOKEN_LIMIT
       /\ sumHistory' = result.history
       /\ compaction_count' = IF result.summarized THEN compaction_count + 1
                              ELSE compaction_count
       /\ sumHistoryFile' = save_history(sumHistory')
       /\ lastSummarize' = [called |-> TRUE, outcome |-> outcome, before |-> sumHistory,
                            returned |-> result.history, summarized |-> result.summarized,
                            count_before |-> compaction_count]
       /\ lastFlush' = NoFlush
       /\ UNCHANGED memory_flush_compaction_count
       /\ UNCHANGED outsideSummary

NextSummary ==
    \/ SessionFlush
    \/ SessionExchange
    \/ SessionCompact

(***************************************************************************)
(* The session store: openclaw_core.SessionStore and its cache.  Time is   *)
(* in ticks; every process has its own module-level _session_store_cache.  *)
(***************************************************************************)
StoreProcs == {"a", "b"}
SessionKeys == {1, 2}

NoStoreFile == [exists |-> FALSE, content |-> {}, mtime |-> NoTime]
NoCache == [cached |-> FALSE, store |-> {}, loaded_at |-> 0, mtime_ms |-> NoTime]
NoCall == [kind |-> "none", key |-> 0, started_at |-> 0, wake_at |-> 0]
NoLoad ==
    [called |-> FALSE, cached |-> FALSE, hit |-> FALSE, fresh |-> TRUE,
     within_ttl |-> TRUE, same_mtime |-> TRUE]

\* SessionStore._get_mtime_ms
get_mtime_ms(file) == IF file.exists THEN file.mtime ELSE NoTime

IsValidForever(entry, t) == entry.cached

\* SessionStoreCache.is_valid
is_valid(entry, t) == entry.cached /\ (t - entry.loaded_at) <= TtlTicks

\* SessionStore.load: "if cached:" is false for an empty store too.
CacheHit(entry, file, t) ==
    /\ is_valid(entry, t)
    /\ entry.store # {}
    /\ get_mtime_ms(file) = entry.mtime_ms

\* SessionStore.load(skip_cache=False): what it returns.
load(entry, file, t) == IF CacheHit(entry, file, t) THEN entry.store ELSE file.content

\* The cache entry after SessionStore.load(skip_cache=False).
CacheAfterLoad(entry, file, t) ==
    IF CacheHit(entry, file, t) THEN entry
    ELSE [cached |-> TRUE, store |-> file.content, loaded_at |-> t,
          mtime_ms |-> get_mtime_ms(file)]

\* The mutators of set and delete.
Mutated(store, call) ==
    IF call.kind = "set" THEN store \cup {call.key} ELSE store \ {call.key}

LockIgnored(holder) == TRUE

NeverTimedOut(elapsed) == FALSE

\* with_lock: elapsed >= timeout_ms
TimedOut(elapsed) == elapsed >= TimeoutTicks

\* os.open(lock_path, O_CREAT | O_EXCL | O_WRONLY) succeeds.
LockFree(holder) == holder = None

InitStore ==
    /\ storeFile = NoStoreFile
    /\ lockHolder = None
    /\ storeNow = 0
    /\ storeCache = [p \in StoreProcs |-> NoCache]
    /\ storePc = [p \in StoreProcs |-> "idle"]
    /\ storeCall = [p \in StoreProcs |-> NoCall]
    /\ storeLoaded = [p \in StoreProcs |-> {}]
    /\ expectedStore = {}
    /\ lastLoad = NoLoad

StoreTick ==
    /\ storeNow < MaxStoreTime
    /\ storeNow' = storeNow + 1
    /\ UNCHANGED <<storeFile, lockHolder, storeCache, storePc, storeCall,
                   storeLoaded, expectedStore, lastLoad>>
    /\ UNCHANGED outsideStore

\* SessionStore.get: load() through the cache.
StoreGet(p) ==
    /\ \A q \in StoreProcs : storePc[q] = "idle"
    /\ lastLoad' = [called |-> TRUE,
                    cached |-> storeCache[p].cached,
                    hit |-> CacheHit(storeCache[p], storeFile, storeNow),
                    fresh |-> load(storeCache[p], storeFile, storeNow) = storeFile.content,
                    within_ttl |-> storeNow - storeCache[p].loaded_at <= TtlTicks,
                    same_mtime |-> storeCache[p].mtime_ms = get_mtime_ms(storeFile)]
    /\ storeCache' = [storeCache EXCEPT ![p] = CacheAfterLoad(@, storeFile, storeNow)]
    /\ UNCHANGED <<storeFile, lockHolder, storeNow, storePc, storeCall, storeLoaded,
                   expectedStore>>
    /\ UNCHANGED outsideStore

\* SessionStore.set / delete: update(mutator) enters with_lock.
StoreCall(p) == \E kind \in {"set", "delete"}, key \in SessionKeys :
    /\ storePc[p] \in {"idle", "raised"}
    /\ storeNow + TimeoutTicks + PollTicks <= MaxStoreTime
    /\ storePc' = [storePc EXCEPT ![p] = "acquiring"]
    /\ storeCall' = [storeCall EXCEPT ![p] =
                        [kind |-> kind, key |-> key, started_at |-> storeNow,
                         wake_at |-> storeNow]]
    /\ UNCHANGED <<storeFile, lockHolder, storeNow, storeCache, storeLoaded,
                   expectedStore, lastLoad>>
    /\ UNCHANGED outsideStore

\* with_lock, one pass of the loop: the exclusive create succeeds, or
\* FileExistsError: TimeoutError once timeout_ms has elapsed, else sleep.
StoreAttempt(p) ==
    /\ storePc[p] = "acquiring"
    /\ storeNow >= storeCall[p].wake_at
    /\ IF LockFree(lockHolder)
       THEN /\ lockHolder' = p
            /\ storePc' = [storePc EXCEPT ![p] = "loading"]
            /\ UNCHANGED storeCall
       ELSE /\ UNCHANGED lockHolder
            /\ IF TimedOut(storeNow - storeCall[p].started_at)
               THEN /\ storePc' = [storePc EXCEPT ![p] = "raised"]
                    /\ storeCall' = [storeCall EXCEPT ![p] = NoCall]
               ELSE /\ storeCall' = [storeCall EXCEPT ![p].wake_at = storeNow + PollTicks]
                    /\ UNCHANGED storePc
    /\ UNCHANGED <<storeFile, storeNow, storeCache, storeLoaded, expectedStore, lastLoad>>
    /\ UNCHANGED outsideStore

\* _update: store = self.load(skip_cache=True)
StoreLoad(p) ==
    /\ storePc[p] = "loading"
    /\ storeLoaded' = [storeLoaded EXCEPT ![p] = storeFile.content]
    /\ storePc' = [storePc EXCEPT ![p] = "saving"]
    /\ UNCHANGED <<storeFile, lockHolder, storeNow, storeCache, storeCall,
                   expectedStore, lastLoad>>
    /\ UNCHANGED outsideStore

\* _update: mutator(store); self.save(store): the cache entry is dropped and
\* the file replaced, or the write fails and save raises.
StoreSave(p) == \E save_ok \in BOOLEAN :
    /\ storePc[p] = "saving"
    /\ storeCache' = [storeCache EXCEPT ![p] = NoCache]
    /\ storeFile' = IF save_ok
                    THEN [exists |-> TRUE,
                          content |-> Mutated(storeLoaded[p], storeCall[p]),
                          mtime |-> storeNow]
                    ELSE storeFile
    /\ expectedStore' = IF save_ok THEN Mutated(expectedStore, storeCall[p])
                        ELSE expectedStore
    /\ storePc' = [storePc EXCEPT ![p] = "releasing"]
    /\ storeLoaded' = [storeLoaded EXCEPT ![p] = {}]
    /\ storeCall' = [storeCall EXCEPT ![p] = NoCall]
    /\ UNCHANGED <<lockHolder, storeNow, lastLoad>>
    /\ UNCHANGED outsideStore

\* with_lock: os.close(lock_fd); os.remove(self.lock_path); return or raise.
StoreRelease(p) ==
    /\ storePc[p] = "releasing"
    /\ lockHolder' = None
    /\ storePc' = [storePc EXCEPT ![p] = "idle"]
    /\ UNCHANGED <<storeFile, storeNow, storeCache, storeCall, storeLoaded,
                   expectedStore, lastLoad>>
    /\ UNCHANGED outsideStore

\* SessionStore.set / delete while no other caller is in with_lock: the lock
\* is taken, the file loaded past the cache, changed and saved (the caller's
\* cache entry dropped), the lock released.
StoreUpdate(p) == \E kind \in {"set", "delete"}, key \in SessionKeys :
    /\ \A q \in StoreProcs : storePc[q] = "idle"
    /\ LockFree(lockHolder)
    /\ storeCache' = [storeCache EXCEPT ![p] = NoCache]
    /\ storeFile' = [exists |-> TRUE,
                     content |-> Mutated(storeFile.content, [kind |-> kind, key |-> key]),
                     mtime |-> storeNow]
    /\ expectedStore' = storeFile'.content
    /\ lastLoad' = NoLoad
    /\ UNCHANGED <<lockHolder, storeNow, storePc, storeCall, storeLoaded>>
    /\ UNCHANGED outsideStore

StoreGets == \E p \in StoreProcs : StoreGet(p)
StoreUpdates == \E p \in StoreProcs : StoreUpdate(p)
StoreCalls == \E p \in StoreProcs : StoreCall(p)
StoreAttempts == \E p \in StoreProcs : StoreAttempt(p)
StoreLoads == \E p \in StoreProcs : StoreLoad(p)
StoreSaves == \E p \in StoreProcs : StoreSave(p)
StoreReleases == \E p \in StoreProcs : StoreRelease(p)

\* Callers of set and delete contending for the lock.
NextStore ==
    \/ StoreTick
    \/ StoreCalls
    \/ StoreAttempts
    \/ StoreLoads
    \/ StoreSaves
    \/ StoreReleases

\* Readers through the cache, with updates in between.
NextStoreCache ==
    \/ StoreTick
    \/ StoreGets
    \/ StoreUpdates

(***************************************************************************)
(* run_scheduler_loop: the iteration's handling of per-entry errors.        *)
(***************************************************************************)
\* The due entries of both stores, in the order of their store files. The
\* reach schedules are one-shots.
NotificationOrder == <<<<"notification", 1>>, <<"notification", 2>>>>
ReachOrder == <<<<"reach", 1>>, <<"reach", 2>>>>
IterNotifications == {NotificationOrder[i] : i \in DOMAIN NotificationOrder}
IterReach == {ReachOrder[i] : i \in DOMAIN ReachOrder}

\* What happens when an entry is handled: nothing wrong; fromisoformat raises
\* ValueError on its once_at; astimezone raises OverflowError on its once_at;
\* the send returns False; the send raises; the store update raises.
EntryFaults == {"none", "ValueError", "OverflowError", "send_false", "send_raises",
                "update_raises"}

CaughtAll(fault) == TRUE

\* The except clauses around the parsing of once_at: "except ValueError" in
\* get_due_notifications, "except (ValueError, TypeError)" in _parse_once_at.
CaughtInEvaluation(fault) == fault = "ValueError"

EvaluationRaises(fault) ==
    fault \in {"ValueError", "OverflowError"} /\ ~CaughtInEvaluation(fault)

\* get_due_notifications and get_due_schedules over entries that are all due:
\* the loop over the entries ends at the first exception it does not catch.
DueEntries(order, faults) ==
    [raised |-> \E i \in DOMAIN order : EvaluationRaises(faults[order[i]]),
     due |-> SelectSeq(order, LAMBDA id : faults[id] \notin {"ValueError", "OverflowError"})]

\* send_scheduled_notification_async / send_to_paired_users_async returned True.
SendOk(fault) == fault \notin {"send_false", "send_raises"}

\* run_scheduler_iteration: the try around one due notification.
SentNotifications(due, faults) ==
    {due[i] : i \in {j \in DOMAIN due : SendOk(faults[due[j]])}}
MarkedNotifications(due, faults) ==
    {id \in SentNotifications(due, faults) : faults[id] # "update_raises"}

\* fire_due_schedules_async: the try around one send.
FiredSchedules(due, faults) == SelectSeq(due, LAMBDA id : SendOk(faults[id]))

\* fire_due_schedules_async: "for s in fired: remove_schedule(s['id'])", which
\* an exception of _save_schedules leaves.
RECURSIVE RemoveFired(_, _)
RemoveFired(fired, faults) ==
    IF fired = <<>> \/ faults[Head(fired)] = "update_raises" THEN {}
    ELSE {Head(fired)} \cup RemoveFired(Tail(fired), faults)

RemoveRaises(fired, faults) ==
    \E i \in DOMAIN fired : faults[fired[i]] = "update_raises"

\* The entries a send was awaited for: every due entry the loops reach.
Attempted(due) == {due[i] : i \in DOMAIN due}

\* run_scheduler_iteration(config, path)
run_scheduler_iteration(faults) ==
    LET found == DueEntries(NotificationOrder, faults)
        reach == DueEntries(ReachOrder, faults)
        fired == IF reach.raised THEN <<>> ELSE FiredSchedules(reach.due, faults)
    IN IF found.raised
       THEN [faults |-> faults, attempted |-> {}, sent |-> {}, marked |-> {}, fired |-> {},
             removed |-> {}, raised |-> TRUE, ran |-> TRUE]
       ELSE [faults |-> faults,
             attempted |-> Attempted(found.due) \cup
                           (IF reach.raised THEN {} ELSE Attempted(reach.due)),
             sent |-> SentNotifications(found.due, faults),
             marked |-> MarkedNotifications(found.due, faults),
             fired |-> {fired[i] : i \in DOMAIN fired},
             removed |-> RemoveFired(fired, faults),
             raised |-> FALSE, ran |-> TRUE]

NoIteration ==
    [faults |-> [id \in IterNotifications \cup IterReach |-> "none"],
     attempted |-> {}, sent |-> {}, marked |-> {}, fired |-> {}, removed |-> {},
     raised |-> FALSE, ran |-> FALSE]

InitIter ==
    /\ loop_running = TRUE
    /\ lastIteration = NoIteration

\* run_scheduler_loop: one pass of "while True", whose "except Exception" logs
\* what the iteration raised.
SchedulerLoopPass == \E faults \in [IterNotifications \cup IterReach -> EntryFaults] :
    /\ loop_running
    /\ lastIteration' = run_scheduler_iteration(faults)
    /\ loop_running' = TRUE
    /\ UNCHANGED outsideIter

NextIter == SchedulerLoopPass

(***************************************************************************)
(* openclaw_smart_delegate.py: select_model.                                *)
(***************************************************************************)
\* MODEL_TIERS: the preference list of each tier, first = preferred.
MODEL_TIERS ==
    [xhigh |-> <<"opus-4.6-thinking", "gpt-5.3-codex-xhigh", "gpt-5.3-codex-xhigh-fast",
                 "gpt-5.2-codex-xhigh", "gpt-5.1-codex-max-high", "gpt-5.1-codex-max",
                 "opus-4.5-thinking">>,
     high |-> <<"opus-4.6", "gpt-5.3-codex-high", "gpt-5.3-codex-high-fast",
                "gpt-5.2-codex-high", "gpt-5.2-high", "gpt-5.1-high", "opus-4.5">>,
     mid |-> <<"sonnet-4.5-thinking", "gpt-5.3-codex", "gpt-5.2-codex", "gpt-5.2",
               "sonnet-4.5">>,
     low |-> <<"gemini-3-pro", "gpt-5.3-codex-low", "gpt-5.2-codex-low", "grok">>,
     fast |-> <<"gemini-3-flash", "gpt-5.3-codex-fast", "gpt-5.3-codex-low-fast",
                "gpt-5.2-codex-fast", "gpt-5.2-codex-low-fast">>]

\* MODEL_TIERS.keys(), in the order of the dict.
TierKeys == <<"xhigh", "high", "mid", "low", "fast">>
Tiers == {TierKeys[i] : i \in DOMAIN TierKeys}

TIER_RANK == [xhigh |-> 5, high |-> 4, mid |-> 3, low |-> 2, fast |-> 1]

Abs(n) == IF n < 0 THEN 0 - n ELSE n
TierDistance(tier, target_tier) == Abs(TIER_RANK[tier] - TIER_RANK[target_tier])

\* sorted(MODEL_TIERS.keys(), key=distance): a stable sort, ties keep the
\* order of the dict.
RECURSIVE TiersFrom(_, _)
TiersFrom(d, target_tier) ==
    IF d > Len(TierKeys) THEN <<>>
    ELSE SelectSeq(TierKeys, LAMBDA t : TierDistance(t, target_tier) = d)
         \o TiersFrom(d + 1, target_tier)
tier_order(target_tier) == TiersFrom(0, target_tier)

\* _MODEL_TO_TIER.get(model_id, "mid")
ModelTier(model_id) ==
    IF \E t \in Tiers : \E i \in DOMAIN MODEL_TIERS[t] : MODEL_TIERS[t][i] = model_id
    THEN CHOOSE t \in Tiers : \E i \in DOMAIN MODEL_TIERS[t] : MODEL_TIERS[t][i] = model_id
    ELSE "mid"

IdsOf(available_models) == {available_models[i] : i \in DOMAIN available_models}

QualifiesAlways(model_id, available_ids, exclude_model) == model_id \in available_ids

\* "model_id in available_ids and model_id != exclude_model"
Qualifies(model_id, available_ids, exclude_model) ==
    model_id \in available_ids /\ model_id # exclude_model

\* The candidates of one tier, in preference order.
TierCandidates(tier, available_ids, exclude_model) ==
    SelectSeq(MODEL_TIERS[tier], LAMBDA m : Qualifies(m, available_ids, exclude_model))

\* The two nested loops of select_model: the first qualifying model of the
\* first tier of tier_order that has one; <<>> if there is none.
RECURSIVE FirstTiered(_, _, _)
FirstTiered(order, available_ids, exclude_model) ==
    IF order = <<>> THEN <<>>
    ELSE LET found == TierCandidates(Head(order), available_ids, exclude_model)
         IN IF found # <<>> THEN <<[model_id |-> Head(found), tier |-> Head(order)]>>
            ELSE FirstTiered(Tail(order), available_ids, exclude_model)

\* The fallback loop over available_models.
FallbackCandidates(available_models, exclude_model) ==
    SelectSeq(available_models, LAMBDA m : m # exclude_model /\ m # "auto")

\* select_model(complexity, available_models, exclude_model, preferred_tier):
\* model_id and tier of the ModelChoice.
select_model(target_tier, available_models, exclude_model) ==
    LET tiered == FirstTiered(tier_order(target_tier), IdsOf(available_models), exclude_model)
        fallback == FallbackCandidates(available_models, exclude_model)
    IN IF tiered # <<>> THEN tiered[1]
       ELSE IF fallback # <<>>
            THEN [model_id |-> Head(fallback), tier |-> ModelTier(Head(fallback))]
            ELSE [model_id |-> "auto", tier |-> "mid"]

\* The ids discover_models may report: the two preferred models of every
\* tier, a model of no tier, and "auto".
ReportedIds ==
    UNION {{MODEL_TIERS[t][1], MODEL_TIERS[t][2]} : t \in Tiers} \cup {"custom-model-v1", "auto"}

AvailableLists ==
    UNION {{l \in [1..n -> ReportedIds] : \A i, j \in 1..n : i # j => l[i] # l[j]}
              : n \in 0..MaxModels}

\* A call that has not returned yet.
Pending(target_tier, available_models, exclude_model) ==
    [called |-> FALSE, target_tier |-> target_tier, available_models |-> available_models,
     exclude_model |-> exclude_model, model_id |-> None, tier |-> "mid"]

InitIdleChoice == lastChoice = Pending("mid", <<>>, None)

\* The arguments of the call: any tier, any list of distinct reported ids,
\* any excluded id or none.
InitChoice ==
    \E target_tier \in Tiers, available_models \in AvailableLists,
       exclude_model \in ReportedIds \cup {None} :
        lastChoice = Pending(target_tier, available_models, exclude_model)

SelectModel ==
    /\ ~lastChoice.called
    /\ LET choice == select_model(lastChoice.target_tier, lastChoice.available_models,
                                  lastChoice.exclude_model)
       IN lastChoice' = [lastChoice EXCEPT !.called = TRUE, !.model_id = choice.model_id,
                                           !.tier = choice.tier]
    /\ UNCHANGED outsideChoice

NextChoice == SelectModel

(***************************************************************************)
(* telegram_integration.py: chunk_message_for_telegram. A text is the       *)
(* sequence of its characters.                                             *)
(***************************************************************************)
\* _CHUNK_SAFE_END_TAGS
CHUNK_SAFE_END_TAGS ==
    {<<"<", "/", "b", ">">>, <<"<", "/", "i", ">">>, <<"<", "/", "s", ">">>,
     <<"<", "/", "c", "o", "d", "e", ">">>, <<"<", "/", "p", "r", "e", ">">>,
     <<"<", "/", "a", ">">>}

\* "[Continued...]\n"
ContinuedPrefix ==
    <<"[", "C", "o", "n", "t", "i", "n", "u", "e", "d", ".", ".", ".", "]", "\n">>

Whitespace == {" ", "\n"}

\* s[a:b] for 0 <= a, with b cut at len(s).
Slice(s, a, b) == SubSeq(s, a + 1, IF b > Len(s) THEN Len(s) ELSE b)

\* s.rfind(sub): the greatest index at which sub starts, -1 if there is none.
rfind(s, sub) ==
    LET at == {p \in 0..(Len(s) - Len(sub)) : SubSeq(s, p + 1, p + Len(sub)) = sub}
    IN IF at = {} THEN 0 - 1 ELSE CHOOSE p \in at : \A q \in at : q <= p

RECURSIVE rstrip(_)
rstrip(s) ==
    IF s # <<>> /\ s[Len(s)] \in Whitespace THEN rstrip(SubSeq(s, 1, Len(s) - 1)) ELSE s

RECURSIVE lstrip(_)
lstrip(s) == IF s # <<>> /\ Head(s) \in Whitespace THEN lstrip(Tail(s)) ELSE s

\* The end of the last occurrence of a tag in segment, -1 if there is none.
LastTagEnd(segment, min_pos, tag) ==
    IF rfind(segment, tag) >= 0 THEN min_pos + rfind(segment, tag) + Len(tag) ELSE 0 - 1

MaxOfSet(S) == CHOOSE n \in S : \A k \in S : k <= n

\* _last_safe_split_index(candidate, min_pos, max_pos)
last_safe_split_index(candidate, min_pos, max_pos) ==
    LET segment == Slice(candidate, min_pos, max_pos)
        last_nl == rfind(segment, <<"\n">>)
        after_nl == IF last_nl >= 0 THEN min_pos + last_nl + 1 ELSE 0 - 1
        best == MaxOfSet({after_nl}
                         \cup {LastTagEnd(segment, min_pos, tag) : tag \in CHUNK_SAFE_END_TAGS})
    IN IF best >= min_pos THEN best ELSE 0 - 1

\* candidate = rest[: max_length + 1]
Candidate(rest, max_length) == Slice(rest, 0, max_length + 1)

\* The split position of one pass of the while loop.
SplitAt(rest, max_length) ==
    LET min_half == max_length \div 2
        candidate == Candidate(rest, max_length)
        safe == last_safe_split_index(candidate, min_half, Len(candidate))
    IN IF safe >= min_half THEN safe ELSE max_length

\* The while loop of chunk_message_for_telegram.
RECURSIVE ChunkLoop(_, _)
ChunkLoop(rest, max_length) ==
    IF rest = <<>> THEN <<>>
    ELSE IF Len(rest) <= max_length THEN <<rest>>
    ELSE LET split_at == SplitAt(rest, max_length)
             after == lstrip(Slice(rest, split_at, Len(rest)))
         IN <<rstrip(Slice(rest, 0, split_at))>>
            \o ChunkLoop(IF after # <<>> THEN ContinuedPrefix \o after ELSE after, max_length)

chunk_message_for_telegram(text, max_length) ==
    IF Len(text) <= max_length THEN (IF text # <<>> THEN <<text>> ELSE <<>>)
    ELSE ChunkLoop(text, max_length)

\* The texts: a run of letters, a separator, a run of letters.
Run(n) == [i \in 1..n |-> "x"]
Separators == {<<>>, <<"\n">>, <<" ">>, <<"<", "/", "b", ">">>}
Texts ==
    {Run(a) \o sep \o Run(b) : a \in 0..MaxLead, sep \in Separators, b \in 0..MaxTail}

\* The limits: the least one whose half lies behind the continuation prefix,
\* and the next one.
ChunkLimits == {2 * Len(ContinuedPrefix), 2 * Len(ContinuedPrefix) + 1}

Unchunked(text, max_length) ==
    [called |-> FALSE, text |-> text, max_length |-> max_length, chunks |-> <<>>]

InitIdleChunk == lastChunks = Unchunked(<<>>, 2 * Len(ContinuedPrefix))

InitChunk == \E text \in Texts, max_length \in ChunkLimits :
    lastChunks = Unchunked(text, max_length)

ChunkMessage ==
    /\ ~lastChunks.called
    /\ lastChunks' = [lastChunks EXCEPT
                         !.called = TRUE,
                         !.chunks = chunk_message_for_telegram(lastChunks.text,
                                                               lastChunks.max_length)]
    /\ UNCHANGED outsideChunk

NextChunk == ChunkMessage

InitIdleSelect ==
    /\ selHistory = <<>> /\ selMaxTokens = 0 /\ selSystemTokens = 0 /\ selUserTokens = 0
    /\ selResult = NoResult

(***************************************************************************)
(* SubagentTracker._lock, an asyncio.Lock, under update_status calls of    *)
(* several tasks of one event loop.  update_status runs the completion     *)
(* callbacks inside "async with self._lock"; a callback may await a        *)
(* tracker method, which enters "async with self._lock" again.             *)
(***************************************************************************)
MaxLockCallbacks == 2
MaxCalls == 2
Tasks == {1, 2}
\* What a callback awaits: nothing of the tracker, or one of its methods.
CallbackKinds == {"plain", "get_result", "add_progress_update"}
NoHolder == <<0, "none">>

\* asyncio.Lock.acquire: taken at once when it is free and nobody waits,
\* otherwise the caller is queued.
Acquire(who) ==
    IF lock_holder = NoHolder /\ lock_waiters = <<>>
    THEN lock_holder' = who /\ UNCHANGED lock_waiters
    ELSE lock_waiters' = Append(lock_waiters, who) /\ UNCHANGED lock_holder

\* asyncio.Lock.release: the first waiter is woken and holds the lock next.
Release ==
    IF lock_waiters = <<>>
    THEN lock_holder' = NoHolder /\ UNCHANGED lock_waiters
    ELSE lock_holder' = Head(lock_waiters) /\ lock_waiters' = Tail(lock_waiters)

InitLock ==
    /\ lock_holder = NoHolder
    /\ lock_waiters = <<>>
    /\ callback_kinds = <<>>
    /\ callPc = [t \in Tasks |-> "idle"]
    /\ callIndex = [t \in Tasks |-> 0]
    /\ callTriggers = [t \in Tasks |-> FALSE]
    /\ calls = [t \in Tasks |-> 0]

\* register_completion_callback
LockRegister == \E kind \in CallbackKinds :
    /\ Len(callback_kinds) < MaxLockCallbacks
    /\ callback_kinds' = Append(callback_kinds, kind)
    /\ UNCHANGED <<lock_holder, lock_waiters, callPc, callIndex, callTriggers, calls>>
    /\ UNCHANGED outsideLock

\* A task awaits update_status: "async with self._lock".
CallUpdate(t) == \E triggers \in BOOLEAN :
    /\ callPc[t] = "idle"
    /\ calls[t] < MaxCalls
    /\ Acquire(<<t, "update_status">>)
    /\ callPc' = [callPc EXCEPT ![t] = "acquire"]
    /\ callTriggers' = [callTriggers EXCEPT ![t] = triggers]
    /\ calls' = [calls EXCEPT ![t] = @ + 1]
    /\ UNCHANGED <<callback_kinds, callIndex>>
    /\ UNCHANGED outsideLock

\* The coroutine that was given the lock goes on: the body of update_status,
\* or the body of the tracker method the callback awaited.
Resume(t) ==
    /\ \/ /\ callPc[t] = "acquire"
          /\ lock_holder = <<t, "update_status">>
          /\ callPc' = [callPc EXCEPT ![t] = "locked"]
       \/ /\ callPc[t] = "in_callback"
          /\ lock_holder = <<t, "callback">>
          /\ callPc' = [callPc EXCEPT ![t] = "callback_locked"]
    /\ UNCHANGED <<lock_holder, lock_waiters, callback_kinds, callIndex, callTriggers, calls>>
    /\ UNCHANGED outsideLock

\* update_status under the lock: the record is changed and saved; the loop
\* over the callbacks starts when the status change triggers them.
UpdateBody(t) ==
    /\ callPc[t] = "locked"
    /\ callPc' = [callPc EXCEPT ![t] = IF callTriggers[t] THEN "callbacks" ELSE "release"]
    /\ callIndex' = [callIndex EXCEPT ![t] = 1]
    /\ UNCHANGED <<lock_holder, lock_waiters, callback_kinds, callTriggers, calls>>
    /\ UNCHANGED outsideLock

\* update_status: "await callback(execution)", still under the lock.  A
\* callback that awaits a tracker method enters "async with self._lock".
RunCallback(t) ==
    /\ callPc[t] = "callbacks"
    /\ IF callIndex[t] > Len(callback_kinds)
       THEN /\ callPc' = [callPc EXCEPT ![t] = "release"]
            /\ UNCHANGED <<lock_holder, lock_waiters, callIndex>>
       ELSE IF callback_kinds[callIndex[t]] = "plain"
       THEN /\ callIndex' = [callIndex EXCEPT ![t] = @ + 1]
            /\ UNCHANGED <<lock_holder, lock_waiters, callPc>>
       ELSE /\ Acquire(<<t, "callback">>)
            /\ callPc' = [callPc EXCEPT ![t] = "in_callback"]
            /\ UNCHANGED callIndex
    /\ UNCHANGED <<callback_kinds, callTriggers, calls>>
    /\ UNCHANGED outsideLock

\* The end of an "async with self._lock" block: of update_status, which then
\* returns, or of the method the callback awaited, which returns to the loop.
Leave(t) ==
    /\ \/ /\ callPc[t] = "release"
          /\ lock_holder = <<t, "update_status">>
          /\ callPc' = [callPc EXCEPT ![t] = "returned"]
          /\ UNCHANGED callIndex
       \/ /\ callPc[t] = "callback_locked"
          /\ lock_holder = <<t, "callback">>
          /\ callPc' = [callPc EXCEPT ![t] = "callbacks"]
          /\ callIndex' = [callIndex EXCEPT ![t] = @ + 1]
    /\ Release
    /\ UNCHANGED <<callback_kinds, callTriggers, calls>>
    /\ UNCHANGED outsideLock

\* The task has its result and may call again.
CallDone(t) ==
    /\ callPc[t] = "returned"
    /\ callPc' = [callPc EXCEPT ![t] = "idle"]
    /\ UNCHANGED <<lock_holder, lock_waiters, callback_kinds, callIndex, callTriggers, calls>>
    /\ UNCHANGED outsideLock

\* The steps of one task; the event loop runs every task that can run.
TaskStep(t) ==
    \/ CallUpdate(t)
    \/ Resume(t)
    \/ UpdateBody(t)
    \/ RunCallback(t)
    \/ Leave(t)
    \/ CallDone(t)

NextLock ==
    \/ LockRegister
    \/ \E t \in Tasks : TaskStep(t)

(***************************************************************************)
(* SessionStore.with_lock(fn) for any fn: the loop around the exclusive     *)
(* create of the lock file, the inner try around fn with its bare except,  *)
(* and the outer "except FileExistsError" / "except Exception".            *)
(***************************************************************************)
\* What fn does when it is run: it returns, or raises an exception of one of
\* these types (KeyboardInterrupt is not an Exception).
FnOutcomes == {"returns", "ValueError", "FileExistsError", "KeyboardInterrupt"}
NoWithLockCall == [started_at |-> 0, wake_at |-> 0]

\* with_lock: which exceptions leaving the inner try the clause
\* "except FileExistsError" of the outer try takes.
TakenAsLockExists(outcome) == outcome = "FileExistsError"

InitWithLock ==
    /\ lock_path = None
    /\ withLockPc = "idle"
    /\ withLockCall = NoWithLockCall
    /\ fn_runs = 0
    /\ fn_outcome = None
    /\ withLockResult = None

\* store.with_lock(fn)
WithLockCall ==
    /\ withLockPc = "idle"
    /\ storeNow + TimeoutTicks + PollTicks <= MaxStoreTime
    /\ withLockPc' = "acquiring"
    /\ withLockCall' = [started_at |-> storeNow, wake_at |-> storeNow]
    /\ fn_runs' = 0
    /\ fn_outcome' = None
    /\ withLockResult' = None
    /\ UNCHANGED lock_path
    /\ UNCHANGED outsideWithLock

\* The outer "except FileExistsError": TimeoutError once timeout_ms has
\* elapsed since the call started, else sleep and go round the loop again.
WaitOrTimeout ==
    IF TimedOut(storeNow - withLockCall.started_at)
    THEN /\ withLockPc' = "idle"
         /\ withLockResult' = "TimeoutError"
         /\ UNCHANGED withLockCall
    ELSE /\ withLockPc' = "acquiring"
         /\ withLockCall' = [withLockCall EXCEPT !.wake_at = storeNow + PollTicks]
         /\ UNCHANGED withLockResult

\* with_lock, the top of the loop: os.open(lock_path, O_CREAT | O_EXCL).
WithLockAttempt ==
    /\ withLockPc = "acquiring"
    /\ storeNow >= withLockCall.wake_at
    /\ IF LockFree(lock_path)
       THEN /\ lock_path' = "caller"
            /\ withLockPc' = "held"
            /\ UNCHANGED <<withLockCall, withLockResult>>
       ELSE /\ WaitOrTimeout
            /\ UNCHANGED lock_path
    /\ UNCHANGED <<fn_runs, fn_outcome>>
    /\ UNCHANGED outsideWithLock

\* result = fn(), under the lock.
WithLockRun == \E outcome \in FnOutcomes :
    /\ withLockPc = "held"
    /\ fn_runs' = fn_runs + 1
    /\ fn_outcome' = outcome
    /\ withLockPc' = "releasing"
    /\ UNCHANGED <<lock_path, withLockCall, withLockResult>>
    /\ UNCHANGED outsideWithLock

\* os.close(lock_fd); os.remove(self.lock_path), after fn returned or in the
\* bare except; then "return result", or "raise" into the outer try.
WithLockRelease ==
    /\ withLockPc = "releasing"
    /\ lock_path' = None
    /\ IF fn_outcome = "returns"
       THEN /\ withLockPc' = "idle"
            /\ withLockResult' = "returned"
            /\ UNCHANGED withLockCall
       ELSE IF TakenAsLockExists(fn_outcome)
       THEN WaitOrTimeout
       ELSE /\ withLockPc' = "idle"
            /\ withLockResult' = fn_outcome
            /\ UNCHANGED withLockCall
    /\ UNCHANGED <<fn_runs, fn_outcome>>
    /\ UNCHANGED outsideWithLock

\* Another process takes the lock file, and removes it later.
OtherAcquire ==
    /\ LockFree(lock_path)
    /\ lock_path' = "other"
    /\ UNCHANGED <<withLockPc, withLockCall, fn_runs, fn_outcome, withLockResult>>
    /\ UNCHANGED outsideWithLock

OtherRelease ==
    /\ lock_path = "other"
    /\ lock_path' = None
    /\ UNCHANGED <<withLockPc, withLockCall, fn_runs, fn_outcome, withLockResult>>
    /\ UNCHANGED outsideWithLock

NextWithLock ==
    \/ StoreTick
    \/ WithLockCall
    \/ WithLockAttempt
    \/ WithLockRun
    \/ WithLockRelease
    \/ OtherAcquire
    \/ OtherRelease

InitRest ==
    InitTracker /\ InitDelegate /\ InitCli /\ InitAgents /\ InitPairing /\ InitTools /\ InitSummary
        /\ InitStore /\ InitIter /\ InitLock /\ InitWithLock

InitOthers == InitRest /\ InitIdleChoice /\ InitIdleChunk

Init == InitOthers /\ InitIdleSelect /\ InitIdleSched

SpecTracker == Init /\ [][NextTracker]_vars
SpecDelegate == Init /\ [][NextDelegate]_vars
\* Both processes keep running until they have returned.
SpecDelegateRuns == Init /\ [][NextDelegateRuns]_vars /\ WF_vars(NextDelegateRuns)
InitSelection == InitOthers /\ InitSelect /\ InitIdleSched
SpecSelect == InitSelection /\ [][NextSelect]_vars
SpecCli == Init /\ [][NextCli]_vars
SpecAgents == Init /\ [][NextAgents]_vars
SpecPairing == Init /\ [][NextPairing]_vars
SpecTools == Init /\ [][NextTools]_vars
SpecSummary == Init /\ [][NextSummary]_vars
SpecStore == Init /\ [][NextStore]_vars
SpecStoreCache == Init /\ [][NextStoreCache]_vars
SpecWithLock == Init /\ [][NextWithLock]_vars
SpecIter == Init /\ [][NextIter]_vars
\* The event loop runs every task that is ready.
SpecLock == Init /\ [][NextLock]_vars /\ \A t \in Tasks : WF_vars(TaskStep(t))
InitModelChoice ==
    InitRest /\ InitIdleSelect /\ InitIdleSched /\ InitChoice /\ InitIdleChunk
SpecChoice == InitModelChoice /\ [][NextChoice]_vars
InitChunking ==
    InitRest /\ InitIdleSelect /\ InitIdleSched /\ InitIdleChoice /\ InitChunk
SpecChunk == InitChunking /\ [][NextChunk]_vars
InitScheduler == InitOthers /\ InitIdleSelect /\ InitSched
SpecSched == InitScheduler /\ [][NextSched]_vars

\* Both processes have returned and no save is under way.
DelegateDone ==
    /\ pc["parent"] = "done" /\ pc["runner"] = "done"
    /\ \A p \in Procs : ~saving[p]
    /\ execution_id # 0

(***************************************************************************)
(* Claims about the tracker.                                               *)
(***************************************************************************)
\* The statuses the claims call terminal for the completion callbacks.
TerminalStatuses == {"COMPLETED", "FAILED", "TIMEOUT"}

\* C1: every registered completion callback is invoked exactly once per
\* record: an update_status call runs the callbacks if and only if it moves the
\* record from a non-terminal status (starting, running, thinking) to
\* completed, failed or timeout, and no callback is invoked twice for a record.
C1_CallbackExactlyOnce ==
    /\ lastUpdate.id # 0 =>
          (lastUpdate.ran <=>
              (lastUpdate.old \in ActiveStatuses /\ lastUpdate.new \in TerminalStatuses))
    /\ \A p \in Procs, c \in Callbacks, id \in ExecIds : cbCalls[p][c][id] <= 1

\* C2: in memory and in the state file, a record's completed_at is set if and
\* only if its status is terminal (a status update_status stamps: completed,
\* failed, timeout, cancelled).
C2_CompletedAtIffTerminal ==
    /\ \A p \in Procs : \A id \in DOMAIN executions[p] :
          (executions[p][id].completed_at # 0) <=>
              (executions[p][id].status \in StampedStatuses)
    /\ \A id \in DOMAIN stateFile.executions :
          (stateFile.executions[id].completed_at # 0) <=>
              (StatusOfValue(stateFile.executions[id].status) \in StampedStatuses)

\* C3: once the parent and the runner have returned, the record in the state
\* file is the result of all their completed calls in an order that respects
\* real time: it holds the four progress updates (p1 before p2, r1 before r2),
\* and its status is the runner's final one.
C3_NoCompletedMutationLost ==
    DelegateDone =>
        /\ stateFile.valid
        /\ execution_id \in DOMAIN stateFile.executions
        /\ LET rec == stateFile.executions[execution_id]
               msgs == rec.progress_updates
           IN /\ Len(msgs) = 4
              /\ {msgs[i] : i \in 1..Len(msgs)} = {"p1", "p2", "r1", "r2"}
              /\ rec.status = IF delegateResult = "success" THEN "completed" ELSE "failed"


(***************************************************************************)
(* History selection claims.                                               *)
(***************************************************************************)
SelAvailable == AvailableTokens(selMaxTokens, selSystemTokens, selUserTokens)

RECURSIVE EntryTokens(_)
EntryTokens(history) ==
    IF history = <<>> THEN 0
    ELSE estimate_tokens(format_message(PromptLabel(Head(history)), Head(history).content))
         + EntryTokens(Tail(history))

HeadIsSummary == selHistory # <<>> /\ selHistory[1].role = "system"

SummaryTokens == estimate_tokens(format_message("SYSTEM SUMMARY", selHistory[1].content))

\* C4 as stated: the estimate of the history context placed in the prompt,
\* the block rendered by format_history_for_prompt from the selected
\* entries, never exceeds B - tokens(system_prompt) - tokens(user request)
\* - 1000.
C4_RenderedContextWithinBudget ==
    selResult.called /\ selResult.selected # <<>> =>
        estimate_tokens(format_history_for_prompt(selResult.selected)) <= SelAvailable

\* C4 as the code has it: the sum over the selected entries of the estimate
\* of each formatted entry, which is the token count the selection returns,
\* never exceeds the available budget; the rendered block exceeds it by at
\* most the estimate of the header, the footer and three characters of
\* rounding per entry.
C4_SelectedEntryTokensWithinBudget ==
    selResult.called /\ selResult.selected # <<>> =>
        /\ selResult.tokens = EntryTokens(selResult.selected)
        /\ EntryTokens(selResult.selected) <= SelAvailable
        /\ estimate_tokens(format_history_for_prompt(selResult.selected))
              <= SelAvailable
                 + (HistoryHeaderLen + HistoryFooterLen + 3 * Len(selResult.selected))
                       \div CHARS_PER_TOKEN

\* The budget is used up exactly by two or more entries and cuts the history.
C4_Witness ==
    /\ selResult.called
    /\ Len(selResult.selected) >= 2
    /\ Len(selResult.selected) < Len(selHistory)
    /\ EntryTokens(selResult.selected) = SelAvailable

\* C5 as stated: when history[0] has role system, the selected context
\* either starts with history[0] or is empty.
C5_SummaryFirstOrEmpty ==
    selResult.called /\ HeadIsSummary =>
        \/ selResult.selected = <<>>
        \/ selResult.selected[1] = selHistory[1]

\* C5 as the code has it: when history[0] has role system, the selected
\* context starts with history[0] exactly when the budget is positive and
\* the summary's formatted tokens are strictly below it; otherwise the
\* summary is dropped and the context holds recent entries only (or nothing).
C5_SummaryFirstIffItFits ==
    selResult.called /\ HeadIsSummary =>
        IF SelAvailable > 0 /\ SummaryTokens < SelAvailable
        THEN selResult.selected # <<>> /\ selResult.selected[1] = selHistory[1]
        ELSE \A i \in 1..Len(selResult.selected) : selResult.selected[i].role # "system"

\* A summary kept in front of a suffix of the recent entries.
C5_Witness ==
    /\ selResult.called
    /\ HeadIsSummary
    /\ Len(selResult.selected) >= 2
    /\ Len(selResult.selected) < Len(selHistory)
    /\ selResult.selected[1] = selHistory[1]

\* A summary dropped while recent entries are still selected.
C5_SummaryDropped ==
    /\ selResult.called
    /\ HeadIsSummary
    /\ selResult.selected # <<>>
    /\ selResult.selected[1] # selHistory[1]


(***************************************************************************)
(* Session history claims.                                                 *)
(***************************************************************************)
FreshRequests == {r \in Requests : reqKind[r] \in {"new", "re"}}

InFlight == {r \in Requests : reqPc[r] = "loaded"}

PairPersisted(r) ==
    \E i \in 1..(Len(historyFile) - 1) :
        historyFile[i] = UserEntry(r) /\ historyFile[i + 1] = AgentEntry(r)

\* C6: a "new" message or a "/re <code> <body>" reply, run through the CLI
\* with --fresh, never has session history in the context of its prompt and
\* never writes an entry to the session history file.
C6_FreshLeavesHistoryAlone ==
    \A r \in FreshRequests :
        /\ reqContext[r] = <<>>
        /\ \A i \in DOMAIN historyFile : historyFile[i].req # r

\* C7: within one session at most one CLI run is between loading and saving
\* the history file, and the user/agent pair of every main-stream request
\* that completed with return code 0 is in the persisted history.
C7_HistoryAppendsTotalOrdered ==
    /\ Cardinality(InFlight) <= 1
    /\ \A r \in Requests :
          reqKind[r] = "main" /\ reqPc[r] = "done" /\ reqReturn[r] = 0
              => PairPersisted(r)


(***************************************************************************)
(* Scheduler claims.                                                       *)
(***************************************************************************)
StoreOf(id) == IF id[1] = "notification" THEN scheduleStore ELSE reachStore

Fired(id) == firedAt[id] # <<>>
LastFired(id) == firedAt[id][Len(firedAt[id])]

\* entry.get("next_run")
NextRunOf(e) == IF "next_run" \in DOMAIN e THEN e.next_run ELSE NoTime

OncePerMinute(id) ==
    \A i, j \in DOMAIN firedAt[id] :
        i < j => MinuteOf(firedAt[id][i]) # MinuteOf(firedAt[id][j])

C9_ReachFiredTwice ==
    \E id \in EntryIds : id[1] = "reach" /\ ~OncePerMinute(id)

NewRequests == {r \in Requests : reqKind[r] = "new"}

NewBefore(r) == {q \in NewRequests : q < r}

C12_CodesUniqueAndStable ==
    /\ \A i, j \in DOMAIN handedOut : i # j => handedOut[i] # handedOut[j]
    /\ \A i, j \in DOMAIN agentsFile.agents :
          i # j => agentsFile.agents[i].agent_code # agentsFile.agents[j].agent_code


(***************************************************************************)
(* Pairing claims.                                                         *)
(***************************************************************************)
LastApproval == approvals[Len(approvals)]

\* The chats whose stored pending code has the characters of the typed one.
PendingFor(typed) ==
    {c \in DOMAIN pairingFile.pending_pairings :
        pairingFile.pending_pairings[c].chars = typed.chars}

C14_StateFileNeverPartial ==
    (\A p \in Procs : ~saving[p]) => (stateFile.exists => stateFile.valid)


\* C15: when the child-agent invocation of a tracked execution exceeds its
\* timeout, the runner leaves the execution's record with status timeout.
C15_TimeoutRecorded ==
    (/\ delegateResult = "timeout"
     /\ pc["runner"] = "done"
     /\ execution_id \in DOMAIN executions["runner"])
        => executions["runner"][execution_id].status = "TIMEOUT"


(***************************************************************************)
(* Tool dispatcher claims.                                                 *)
(***************************************************************************)
Dispatched == dispatchPc = "returned" /\ runtime_integration

\* What the dispatcher appended after the response text.
Appended == SubSeq(updated_response, Len(agent_response) + 1, Len(updated_response))
ResultBlocks == SelectSeq(Appended, LAMBDA b : b.kind # "announcement")
EntriesOf(tool) == {i \in DOMAIN tool_results : tool_results[i].tool = tool}
BlocksOf(tool) == {j \in DOMAIN ResultBlocks : ResultBlocks[j].tool = tool}
\* The result blocks that name mention m's tool and, where the block carries
\* an argument, m's argument.
BlocksAbout(m) ==
    {j \in BlocksOf(m.tool) : ResultBlocks[j].arg \in {m.arg, ""}}
ToolIndex(tool) == CHOOSE i \in DOMAIN ToolOrder : ToolOrder[i] = tool

\* C16: in one dispatch at most 3 web_fetch, 2 web_search, 2 memory_search,
\* 1 delegate, 1 smart_delegate and 1 weather call are executed, and the same
\* call (tool and argument) is never executed twice.
C16_CapsAndNoRepeatedCall ==
    /\ \A i \in DOMAIN ToolOrder :
          Cardinality(EntriesOf(ToolOrder[i])) <= Limit(ToolOrder[i])
    /\ \A i, j \in DOMAIN tool_results :
          (i # j /\ tool_results[i].tool = tool_results[j].tool)
              => tool_results[i].arg # tool_results[j].arg

C18_EveryAttemptReported ==
    \A t \in DOMAIN ToolOrder :
        Cardinality(BlocksOf(ToolOrder[t])) = Cardinality(EntriesOf(ToolOrder[t]))

\* C19: the augmented output starts with the unmodified response; the
\* appended blocks are ordered by tool; a response with one URL and one
\* web-search phrase yields one web_fetch block followed by one web_search
\* block.
C19_PrefixOrderedBlocks ==
    /\ SubSeq(updated_response, 1, Len(agent_response)) = agent_response
    /\ \A i, j \in DOMAIN Appended :
          i < j => ToolIndex(Appended[i].tool) <= ToolIndex(Appended[j].tool)
    /\ (/\ Dispatched
        /\ Len(agent_response) = 2
        /\ Len(Extracted(agent_response, "web_fetch")) = 1
        /\ Len(Extracted(agent_response, "web_search")) = 1)
          => /\ Len(Appended) = 2
             /\ Appended[1].tool = "web_fetch"
             /\ Appended[1].arg = Extracted(agent_response, "web_fetch")[1]
             /\ Appended[2].tool = "web_search"
             /\ Appended[2].arg = Extracted(agent_response, "web_search")[1]


(***************************************************************************)
(* Summarization claims.                                                   *)
(***************************************************************************)
\* C20: when the summarizer's child agent exits non-zero, or its invocation
\* fails or times out, summarize_history returns the history it was given
\* with summarized false, and the compaction count is not incremented.
C20_FailedSummaryKeepsHistory ==
    (lastSummarize.called /\ lastSummarize.outcome # "zero") =>
        /\ lastSummarize.returned = lastSummarize.before
        /\ ~lastSummarize.summarized
        /\ sumHistory = lastSummarize.before
        /\ compaction_count = lastSummarize.count_before

\* The summarizer exited non-zero on an over-long history that an earlier
\* run had compacted once.
C20_Witness ==
    /\ lastSummarize.called
    /\ lastSummarize.outcome = "nonzero"
    /\ Len(lastSummarize.before) >= 2
    /\ compaction_count = 1


\* C21: in every state of the session metadata, the compaction the last
\* memory flush was recorded for is at most compaction_count + 1.
C21_FlushCountAtMostNext ==
    memory_flush_compaction_count <= compaction_count + 1

\* A flush recorded for the compaction after an earlier one.
C21_Witness ==
    /\ compaction_count >= 1
    /\ memory_flush_compaction_count = compaction_count + 1

\* C22: no memory flush runs while the metadata records a flush for
\* compaction_count + 1, however far the total is above the threshold.
C22_OneFlushPerCompactionCycle ==
    [][SessionFlush => memory_flush_compaction_count # compaction_count + 1]_vars

\* A flush is recorded for the coming compaction and the history is over
\* TOKEN_LIMIT, far above the flush threshold.
C22_Witness ==
    /\ memory_flush_compaction_count = compaction_count + 1
    /\ lastFlush.ran /\ lastFlush.ok
    /\ total_estimated(sumHistory) > TOKEN_LIMIT

\* C23: the persisted history has at most one system entry, and a system
\* entry is at index 0 (sequence position 1).
C23_SummaryOnlyAtFront ==
    \A i \in DOMAIN sumHistoryFile : sumHistoryFile[i].role = "system" => i = 1

\* A history summarized twice that has grown again by an exchange.
C23_Witness ==
    /\ compaction_count >= 2
    /\ Len(sumHistoryFile) >= 3
    /\ sumHistoryFile[1].role = "system"


(***************************************************************************)
(* Session store claims.                                                   *)
(***************************************************************************)
\* The caller is executing its function inside with_lock.
InFn(p) == storePc[p] \in {"loading", "saving", "releasing"}
\* The caller has found the lock file present at least once.
HasWaited(p) ==
    storePc[p] = "acquiring" /\ storeCall[p].wake_at > storeCall[p].started_at

\* C24: at most one caller at a time is inside with_lock, it is the one
\* holding the lock file, and the file holds the changes of all completed
\* set and delete calls applied one after another.
C24_UpdatesSerialized ==
    /\ \A p, q \in StoreProcs : (InFn(p) /\ InFn(q)) => p = q
    /\ \A p \in StoreProcs : InFn(p) => lockHolder = p
    /\ storeFile.content = expectedStore

\* Both keys have been set while a caller that found the lock taken waits for
\* the other one to finish.
C24_Witness ==
    /\ storeFile.content = SessionKeys
    /\ \E p \in StoreProcs : HasWaited(p) /\ lockHolder \notin {None, p}

\* C25: a caller that finds the lock file present once the timeout has
\* elapsed does not sleep again but raises TimeoutError, and the raise leaves
\* the lock file to its holder and the store file as it was.
C25_TimeoutRaised ==
    /\ [](\A p \in StoreProcs :
            HasWaited(p) =>
                (storeCall[p].wake_at - PollTicks) - storeCall[p].started_at < TimeoutTicks)
    /\ [][\A p \in StoreProcs :
            (storePc[p] = "acquiring" /\ storePc'[p] = "raised") =>
                /\ storeNow - storeCall[p].started_at >= TimeoutTicks
                /\ lockHolder \notin {None, p}
                /\ lockHolder' = lockHolder
                /\ storeFile' = storeFile
                /\ expectedStore' = expectedStore]_vars

\* A caller has raised TimeoutError while the other one still holds the lock.
C25_Witness ==
    \E p \in StoreProcs : storePc[p] = "raised" /\ lockHolder \notin {None, p}

\* C26 as stated: load returns what the file holds.
C26_LoadReturnsSavedContent ==
    lastLoad.called => lastLoad.fresh

\* C26: load answers from the cache only when the entry was cached at most
\* the TTL ago and its recorded mtime equals the file's; otherwise it
\* returns what the file holds.
C26_CacheHitWithinTtlAndSameMtime ==
    lastLoad.called =>
        /\ lastLoad.hit => (lastLoad.within_ttl /\ lastLoad.same_mtime)
        /\ ~lastLoad.hit => lastLoad.fresh

\* An entry older than the TTL whose file has not changed is read again.
C26_Witness ==
    /\ lastLoad.called /\ lastLoad.cached
    /\ ~lastLoad.within_ttl /\ lastLoad.same_mtime /\ ~lastLoad.hit


(***************************************************************************)
(* Tracker claims: callbacks that raise, records that stay.                *)
(***************************************************************************)
\* C27: when update_status runs the completion callbacks and some of them
\* raise, no exception leaves update_status, every registered callback is
\* invoked, and the new status is in memory and in the state file.
C27_CallbackErrorsContained ==
    (lastUpdate.id # 0 /\ lastUpdate.ran) =>
        /\ ~lastUpdate.raised
        /\ lastUpdate.invoked = 1..completion_callbacks["parent"]
        /\ executions["parent"][lastUpdate.id].status = lastUpdate.new
        /\ stateFile.executions[lastUpdate.id].status = StatusValue(lastUpdate.new)

\* Two callbacks are registered, the first one raises, and an update has
\* run them.
C27_Witness ==
    /\ lastUpdate.id # 0 /\ lastUpdate.ran
    /\ completion_callbacks["parent"] = 2
    /\ 1 \in failing_callbacks["parent"]

\* C28: a record the tracker holds is still in its map and in the state file
\* after every tracker operation and every restart of the tracker.
C28_RecordsNeverDeleted ==
    [][\A id \in DOMAIN executions["parent"] :
          /\ id \in DOMAIN executions'["parent"]
          /\ stateFile'.valid
          /\ id \in DOMAIN stateFile'.executions]_vars

\* A restarted tracker (its callbacks are gone, one had been invoked) holds
\* the record.
C28_Witness ==
    /\ completion_callbacks["parent"] = 0
    /\ \E id \in DOMAIN executions["parent"] : cbCalls["parent"][1][id] >= 1


(***************************************************************************)
(* Scheduler iterations and entries that go wrong.                         *)
(***************************************************************************)
\* C29: in one scheduler iteration, every due entry that has nothing wrong
\* itself is processed whatever goes wrong with the other entries (a
\* notification is sent and marked, a reach schedule is fired and removed),
\* and the scheduler loop keeps running.
C29_EntryErrorsIsolated ==
    /\ loop_running
    /\ \A id \in IterNotifications :
          lastIteration.ran /\ lastIteration.faults[id] = "none" =>
              id \in lastIteration.sent /\ id \in lastIteration.marked
    /\ \A id \in IterReach :
          lastIteration.ran /\ lastIteration.faults[id] = "none" =>
              id \in lastIteration.fired /\ id \in lastIteration.removed


\* A daily notification entry that has no next_run yet.
UnsetDaily(e) == e.enabled /\ e.schedule_type = "daily" /\ e.next_run = NoTime

C31_ExcludedNeverSelected ==
    lastChoice.called => lastChoice.model_id # lastChoice.exclude_model


\* The positions of tier t's preference list whose model is available and not
\* excluded in the last call.
QualifyingIn(t) ==
    {i \in DOMAIN MODEL_TIERS[t] :
        /\ \E k \in DOMAIN lastChoice.available_models :
              lastChoice.available_models[k] = MODEL_TIERS[t][i]
        /\ MODEL_TIERS[t][i] # lastChoice.exclude_model}
FirstQualifying(t) ==
    MODEL_TIERS[t][CHOOSE i \in QualifyingIn(t) : \A j \in QualifyingIn(t) : i <= j]
RankDistance(t) ==
    IF TIER_RANK[t] >= TIER_RANK[lastChoice.target_tier]
    THEN TIER_RANK[t] - TIER_RANK[lastChoice.target_tier]
    ELSE TIER_RANK[lastChoice.target_tier] - TIER_RANK[t]
AvailableNotExcluded ==
    {lastChoice.available_models[k] : k \in DOMAIN lastChoice.available_models}
        \ {lastChoice.exclude_model}

\* C32: select_model returns the first qualifying model of the target tier;
\* if that tier has none, the first qualifying model of a tier at the least
\* rank distance that has one; if no tier has one, an available model that is
\* not excluded; and "auto" when there is none.
C32_SelectionOrder ==
    lastChoice.called =>
        IF QualifyingIn(lastChoice.target_tier) # {}
        THEN /\ lastChoice.model_id = FirstQualifying(lastChoice.target_tier)
             /\ lastChoice.tier = lastChoice.target_tier
        ELSE IF \E t \in Tiers : QualifyingIn(t) # {}
        THEN /\ QualifyingIn(lastChoice.tier) # {}
             /\ lastChoice.model_id = FirstQualifying(lastChoice.tier)
             /\ \A t \in Tiers :
                   QualifyingIn(t) # {} => RankDistance(lastChoice.tier) <= RankDistance(t)
        ELSE IF AvailableNotExcluded # {}
        THEN lastChoice.model_id \in AvailableNotExcluded
        ELSE lastChoice.model_id = "auto"

\* The preferred model of the target tier is excluded, the tier has no other
\* available model, and the call went to another tier.
C32_Witness ==
    /\ lastChoice.called
    /\ lastChoice.exclude_model = MODEL_TIERS[lastChoice.target_tier][1]
    /\ lastChoice.available_models # <<>>
    /\ lastChoice.available_models[1] = lastChoice.exclude_model
    /\ lastChoice.tier # lastChoice.target_tier
    /\ QualifyingIn(lastChoice.tier) # {}


(***************************************************************************)
(* Chunks of a Telegram message.                                           *)
(***************************************************************************)
\* C33: every chunk chunk_message_for_telegram returns is at most max_length
\* characters long, the continuation prefix included.
C33_ChunksWithinLimit ==
    lastChunks.called =>
        \A i \in DOMAIN lastChunks.chunks : Len(lastChunks.chunks[i]) <= lastChunks.max_length


(***************************************************************************)
(* The recent entries of the selected context.                             *)
(***************************************************************************)
SelRemaining == IF HeadIsSummary THEN Tail(selHistory) ELSE selHistory
SummaryIncluded ==
    HeadIsSummary /\ selResult.selected # <<>> /\ selResult.selected[1] = selHistory[1]
SelRecent == IF SummaryIncluded THEN Tail(selResult.selected) ELSE selResult.selected

\* The newest n entries of the history without its summary, and their tokens.
NewestEntries(n) ==
    SubSeq(SelRemaining, Len(SelRemaining) - n + 1, Len(SelRemaining))
RECURSIVE RecentTokens(_)
RecentTokens(entries) ==
    IF entries = <<>> THEN 0
    ELSE estimate_tokens(format_message(IF Head(entries).role = "user" THEN "User" ELSE "Agent",
                                        Head(entries).content))
         + RecentTokens(Tail(entries))
NewestFit(n) ==
    (IF SummaryIncluded THEN SummaryTokens ELSE 0) + RecentTokens(NewestEntries(n))
        <= SelAvailable

\* C34: the selected entries behind the summary head are the newest entries of
\* the history, in their order, as many as fit into the available tokens
\* together with the summary head when it is included: one more would not fit.
C34_LongestFittingSuffix ==
    selResult.called =>
        LET k == Len(SelRecent)
        IN /\ k <= Len(SelRemaining)
           /\ SelRecent = NewestEntries(k)
           /\ k > 0 => NewestFit(k)
           /\ k < Len(SelRemaining) => ~NewestFit(k + 1)

\* A summary head followed by the newest entry, with an older entry that
\* would have fitted alone left out.
C34_Witness ==
    /\ selResult.called
    /\ SummaryIncluded
    /\ Len(SelRecent) = 1
    /\ Len(SelRemaining) = 2
    /\ SummaryTokens + RecentTokens(<<SelRemaining[1]>>) <= SelAvailable


(***************************************************************************)
(* Messages of unpaired chats.                                             *)
(***************************************************************************)
\* C35: under the pairing policy a message of a private chat that is in
\* paired_users neither in the file nor in the bot's memory is answered with
\* a pairing code or a reminder of it, whatever its text: it is not processed,
\* starts no new-thread agent, no reply thread and no detached run, and the
\* bot's paired_users do not gain the chat.
C35_UnpairedNeverForwarded ==
    (lastMessage.handled /\ ~lastMessage.in_file /\ ~lastMessage.in_memory) =>
        /\ lastMessage.route \in {"pairing_code", "reminder"}
        /\ lastMessage.route = "pairing_code" =>
              lastMessage.chat \in DOMAIN botPairings.pending_pairings
                  \/ lastMessage.chat \in pairingFile.paired_users

\* An unpaired chat sent "detached: ..." and got a pairing code.
C35_Witness ==
    /\ lastMessage.handled
    /\ ~lastMessage.in_file /\ ~lastMessage.in_memory
    /\ lastMessage.text = "detached: task"
    /\ lastMessage.route = "pairing_code"


(***************************************************************************)
(* The durable end of a tracked delegation.                                *)
(***************************************************************************)
TerminalValues == {"completed", "failed", "timeout"}

\* C36: when the parent and the runner both run to completion, an execution
\* that was started eventually has a terminal status in the state file.
C36_EventuallyTerminal ==
    [](execution_id # 0 =>
          <>(/\ stateFile.valid
             /\ execution_id \in DOMAIN stateFile.executions
             /\ stateFile.executions[execution_id].status \in TerminalValues))


C38_UpdateStatusReturns ==
    \A t \in Tasks :
        (callPc[t] = "acquire") ~>
            (callPc[t] = "returned" /\ lock_holder # <<t, "update_status">>)


\* C39: an iteration over stores that hold due one-shots (left there by
\* failed deliveries) attempts every one of them that can be evaluated, and
\* takes an entry out of its store exactly when its delivery succeeded.
C39_FailedOneShotRetried ==
    lastIteration.ran =>
        \A id \in IterNotifications \cup IterReach :
            lastIteration.faults[id] \in {"none", "send_false", "send_raises"} =>
                /\ id \in lastIteration.attempted
                /\ (id \in lastIteration.marked \cup lastIteration.removed)
                       <=> SendOk(lastIteration.faults[id])


\* C40: a with_lock call that acquired the lock runs fn exactly once, and
\* when it has returned or raised, whatever fn raised, the lock file it
\* created is gone.
C40_FnOnceLockRemoved ==
    /\ fn_runs <= 1
    /\ (withLockPc = "idle" /\ withLockResult # None) =>
          /\ lock_path # "caller"
          /\ fn_runs = 1 \/ withLockResult = "TimeoutError"

====
